---- MODULE Spec2Model ----
(***************************************************************************)
(* A model of the dtvem version manager (CodingWithCalvin/dtvem.cli).      *)
(*                                                                         *)
(* Part 1: the version resolver (package version): ResolvePartialVersion,  *)
(*         matchesPartial, sortVersionsDesc, compareVersionStrings and     *)
(*         parseVersionParts, over version strings modelled as sequences   *)
(*         of one-character strings.                                       *)
(* Part 2: the provider's Install, a staged install made visible by one    *)
(*         rename, run by concurrent processes.  The providers' code is    *)
(*         not among the sources; the protocol is the one of spec 4.3.     *)
(* Part 3: the manifest source chain built by createDefaultSource,         *)
(*         Fallback(Cached(Remote), Embedded); the four sources are not    *)
(*         among the sources and follow spec 4.2.                          *)
(* Part 4: DefaultSource, the chain memoized behind a sync.Once, called    *)
(*         from concurrent goroutines, and ResetDefaultSource.             *)
(* Part 5: global and local version selection, the list command's          *)
(*         printVersionLine and the shim dispatcher of spec 4.4.           *)
(* Part 6: httpGetWithRetry of the mirror scripts, and its callers.        *)
(* Part 7: install.ps1, the installer script: its checksum test, the      *)
(*         install directory on the User PATH and the run of dtvem init.   *)
(*         It stands after Part 13, whose processes it starts.             *)
(* Part 8: the registry's User and System PATH and the functions of        *)
(*         AddToPath on Windows that read and rewrite them.                *)
(* Part 9: the settings file, LoadSettings, SaveSettings, IsUserInstall    *)
(*         and the init command's determineInstallType.                    *)
(* Part 10: computeGaps of the detect-ruby-gaps script, over the versions  *)
(*         found upstream and the meta keys of the mirror's bucket.        *)
(* Part 11: fetchJobsFromUpstream of the mirror-binaries script, over the  *)
(*         upstream sources of a runtime and what each of them answers.    *)
(* Part 12: the install command's autoSetGlobalIfNeeded, as its tests      *)
(*         describe it; the function is not among the sources.             *)
(* Part 13: the processes that run AddToPath and the init command on       *)
(*         Windows, step by step and side by side: EnsureDirectories, the  *)
(*         install type, the switch warning, AddToPath with its prompts    *)
(*         and its elevated process, and SaveSettings.                     *)
(***************************************************************************)
EXTENDS Integers, Sequences, FiniteSets, TLC

VARIABLES
    input,        \* resolver: the version text the user typed
    available,    \* resolver: the candidate version strings, in list order
    resolved,     \* resolver: what the last resolve call returned
    lastCmp,      \* resolver: what the last compareVersionStrings call returned
    ipc,          \* install: where each installing process stands
    fs,           \* install: the directories under the versions root
    download,     \* install: whether each process holds a downloaded archive
    progress,     \* install: the archive files each process has extracted
    now,          \* manifest: the wall clock, in hours
    cache,        \* manifest: the cache file on disk
    remoteUp,     \* manifest: whether the remote endpoint answers
    remoteManifest, \* manifest: what the remote endpoint serves
    lastFetch,    \* manifest: the latest FetchManifest call and its result
    prevFetch,    \* manifest: the FetchManifest call before it
    defaultSource,     \* default source: the package variable defaultSource
    onceDone,          \* default source: defaultSourceOnce's done flag
    onceLocked,        \* default source: defaultSourceOnce's mutex
    gpc,               \* default source: where each goroutine's call stands
    made,              \* default source: the instance a goroutine has built
    nextInstance,      \* default source: the instances built so far
    resetPc,           \* default source: where ResetDefaultSource stands
    resets,            \* default source: the completed calls of ResetDefaultSource
    createdSinceReset, \* default source: runs of createDefaultSource since the last reset
    returnedSinceReset, \* default source: what DefaultSource returned since then
    raced,             \* default source: whether a reset overlapped a call
    slowPath,          \* default source: the goroutines that entered doSlow since the last reset
    cwd,          \* selection: the working directory, as its depth below the root
    localCfg,     \* selection: each directory's local version for the runtime
    globalSel,    \* selection: the global version for the runtime
    listed,       \* selection: what the list command printed for the present selection
    current,      \* selection: what CurrentVersion returned for the present selection
    shim,         \* selection: the shim invocation in progress
    hpc,          \* http: where the call of httpGetWithRetry stands
    caller,       \* http: the fetch that called it, "none" for a bare call
    maxRetries,   \* http: the parameter maxRetries
    attempt,      \* http: the loop variable attempt
    lastErr,      \* http: the variable lastErr
    requests,     \* http: the responses to the requests made in this call
    sleeps,       \* http: the sleeps made in this call, in seconds
    hret,         \* http: what httpGetWithRetry returned
    fetched,      \* http: what the calling fetch returned
    spc,          \* script: where Main stands
    release,      \* script: $script:ReleaseData
    expectedHash, \* script: $EXPECTED_HASH
    tmpDir,       \* script: the temporary directory $TMP_DIR
    members,      \* script: the files the published archive holds
    installDir,   \* script: the files of $INSTALL_DIR and where they came from
    installDir0,  \* script: $INSTALL_DIR before the script ran
    verdict,      \* script: what Test-Checksum returned
    warnings,     \* script: the warnings written
    exitCode,     \* script: the script's exit code
    exitAt,       \* script: the step that called exit
    userInstallParam, \* script: the switch -UserInstall
    userPath,     \* path: the User PATH of the registry
    systemPath,   \* path: the System PATH of the registry
    procs,        \* path: the processes that call AddToPath or run init
    configDir,    \* settings: what is at the config directory's path
    settingsFile, \* settings: what is at the settings file's path
    loaded,       \* settings: what LoadSettings returned for the present files
    isUser,       \* settings: what IsUserInstall returned for the present files
    saved,        \* settings: the latest SaveSettings since the file was edited
    determined,   \* settings: the latest determineInstallType and its result
    gapVersions,  \* gaps: the versions handed to computeGaps, in order
    existingMeta, \* gaps: the keys of the meta files the bucket holds
    matrix,       \* gaps: what computeGaps returned for the present inputs
    jpc,      \* jobs: where the call of fetchJobsFromUpstream stands
    jruntime, \* jobs: the parameter runtime
    sources,  \* jobs: the variable sources
    srcIdx,   \* jobs: the index of the source the loop is at
    allJobs,  \* jobs: the variable allJobs
    seen,     \* jobs: the keys of the map seen
    answers,  \* jobs: what the sources queried in this call answered
    jret,     \* jobs: what fetchJobsFromUpstream returned
    providerGlobal, \* auto: the global version the provider has stored
    setGlobalCalls, \* auto: the calls of SetGlobalVersion made, with their results
    autoCalls,      \* auto: the versions autoSetGlobalIfNeeded was called with, in order
    userSaved  \* init: an init --user has saved its settings, and no init --user=false was started since

resolverVars == <<input, available, resolved, lastCmp>>
installVars == <<ipc, fs, download, progress>>
manifestVars == <<now, cache, remoteUp, remoteManifest, lastFetch, prevFetch>>

sourceVars == <<defaultSource, onceDone, onceLocked, gpc, made, nextInstance,
                resetPc, resets, createdSinceReset, returnedSinceReset, raced,
                slowPath>>

selectionVars == <<cwd, localCfg, globalSel, listed, current, shim>>

httpVars == <<hpc, caller, maxRetries, attempt, lastErr, requests, sleeps,
              hret, fetched>>

scriptVars == <<spc, release, expectedHash, tmpDir, members, installDir,
                installDir0, verdict, warnings, exitCode, exitAt,
               userInstallParam>>

pathVars == <<userPath, systemPath, procs>>

settingsVars == <<configDir, settingsFile, loaded, isUser, saved, determined>>

gapsVars == <<gapVersions, existingMeta, matrix>>

jobsVars == <<jpc, jruntime, sources, srcIdx, allJobs, seen, answers, jret>>

autoVars == <<providerGlobal, setGlobalCalls, autoCalls>>

initcmdVars == <<userSaved>>

vars == <<input, available, resolved, lastCmp, ipc, fs, download, progress,
         now, cache, remoteUp, remoteManifest, lastFetch, prevFetch,
         defaultSource, onceDone, onceLocked, gpc, made, nextInstance,
         resetPc, resets, createdSinceReset, returnedSinceReset, raced,
         slowPath, cwd, localCfg, globalSel, listed, current, shim, hpc,
         caller, maxRetries, attempt, lastErr, requests, sleeps, hret,
         fetched, spc, release, expectedHash, tmpDir, members, installDir,
         installDir0, verdict, warnings, exitCode, exitAt,
         userInstallParam, userPath, systemPath, procs, configDir,
         settingsFile, loaded, isUser, saved, determined, gapVersions,
         existingMeta, matrix, jpc, jruntime, sources, srcIdx, allJobs,
         seen, answers, jret, providerGlobal, setGlobalCalls, autoCalls,
         userSaved>>

\* What each part leaves alone: the variables of the other parts.
notResolverVars == <<installVars, manifestVars, sourceVars, selectionVars,
    httpVars, scriptVars, pathVars, settingsVars, gapsVars, jobsVars,
    autoVars, initcmdVars>>
notInstallVars == <<resolverVars, manifestVars, sourceVars, selectionVars,
    httpVars, scriptVars, pathVars, settingsVars, gapsVars, jobsVars,
    autoVars, initcmdVars>>
notManifestVars == <<resolverVars, installVars, sourceVars, selectionVars,
    httpVars, scriptVars, pathVars, settingsVars, gapsVars, jobsVars,
    autoVars, initcmdVars>>
notSourceVars == <<resolverVars, installVars, manifestVars, selectionVars,
    httpVars, scriptVars, pathVars, settingsVars, gapsVars, jobsVars,
    autoVars, initcmdVars>>
notSelectionVars == <<resolverVars, installVars, manifestVars, sourceVars,
    httpVars, scriptVars, pathVars, settingsVars, gapsVars, jobsVars,
    autoVars, initcmdVars>>
notHttpVars == <<resolverVars, installVars, manifestVars, sourceVars,
    selectionVars, scriptVars, pathVars, settingsVars, gapsVars, jobsVars,
    autoVars, initcmdVars>>
notScriptVars == <<resolverVars, installVars, manifestVars, sourceVars,
    selectionVars, httpVars, pathVars, settingsVars, gapsVars, jobsVars,
    autoVars, initcmdVars>>
notPathVars == <<resolverVars, installVars, manifestVars, sourceVars,
    selectionVars, httpVars, scriptVars, settingsVars, gapsVars, jobsVars,
    autoVars, initcmdVars>>
notSettingsVars == <<resolverVars, installVars, manifestVars, sourceVars,
    selectionVars, httpVars, scriptVars, pathVars, gapsVars, jobsVars,
    autoVars, initcmdVars>>
notGapsVars == <<resolverVars, installVars, manifestVars, sourceVars,
    selectionVars, httpVars, scriptVars, pathVars, settingsVars, jobsVars,
    autoVars, initcmdVars>>
notJobsVars == <<resolverVars, installVars, manifestVars, sourceVars,
    selectionVars, httpVars, scriptVars, pathVars, settingsVars, gapsVars,
    autoVars, initcmdVars>>
notAutoVars == <<resolverVars, installVars, manifestVars, sourceVars,
    selectionVars, httpVars, scriptVars, pathVars, settingsVars, gapsVars,
    jobsVars, initcmdVars>>
notInitCmdVars == <<resolverVars, installVars, manifestVars, sourceVars,
    selectionVars, httpVars, scriptVars, pathVars, settingsVars, gapsVars,
    jobsVars, autoVars>>

(***************************************************************************)
(* Strings.  A Go string is a sequence of one-character strings; the       *)
(* library functions the resolver calls are modelled by what they do.      *)
(***************************************************************************)

IsDigit(c) == c \in {"0", "1", "2", "3", "4", "5", "6", "7", "8", "9"}

DigitVal(c) ==
    CASE c = "0" -> 0 [] c = "1" -> 1 [] c = "2" -> 2 [] c = "3" -> 3
      [] c = "4" -> 4 [] c = "5" -> 5 [] c = "6" -> 6 [] c = "7" -> 7
      [] c = "8" -> 8 [] c = "9" -> 9

DigitChar(d) ==
    CASE d = 0 -> "0" [] d = 1 -> "1" [] d = 2 -> "2" [] d = 3 -> "3"
      [] d = 4 -> "4" [] d = 5 -> "5" [] d = 6 -> "6" [] d = 7 -> "7"
      [] d = 8 -> "8" [] d = 9 -> "9"

RECURSIVE DigitsValue(_)
DigitsValue(s) ==
    IF s = <<>> THEN 0
    ELSE 10 * DigitsValue(SubSeq(s, 1, Len(s) - 1)) + DigitVal(s[Len(s)])

\* strconv.Atoi: an optional sign, then one or more decimal digits.
Atoi(s) ==
    LET signed == Len(s) >= 1 /\ s[1] \in {"+", "-"}
        body == IF signed THEN Tail(s) ELSE s
    IN  IF body = <<>> \/ (\E i \in DOMAIN body : ~IsDigit(body[i]))
        THEN [ok |-> FALSE, val |-> 0]
        ELSE [ok |-> TRUE,
              val |-> IF signed /\ s[1] = "-" THEN 0 - DigitsValue(body)
                      ELSE DigitsValue(body)]

\* strconv.Itoa on a natural number.
RECURSIVE Itoa(_)
Itoa(n) ==
    IF n < 10 THEN <<DigitChar(n)>>
    ELSE Itoa(n \div 10) \o <<DigitChar(n % 10)>>

\* strings.TrimPrefix(s, "v"): one leading "v" is removed, if there is one.
TrimPrefixV(s) == IF Len(s) >= 1 /\ s[1] = "v" THEN Tail(s) ELSE s

\* strings.Split(s, sep) for a one-character separator; Split("", sep) = [""].
RECURSIVE Split(_, _)
Split(s, sep) ==
    IF \A i \in DOMAIN s : s[i] # sep THEN <<s>>
    ELSE LET k == CHOOSE i \in DOMAIN s :
                      s[i] = sep /\ \A j \in 1..(i - 1) : s[j] # sep
         IN  <<SubSeq(s, 1, k - 1)>> \o Split(SubSeq(s, k + 1, Len(s)), sep)

\* The separator predicate handed to strings.FieldsFunc by parseVersionParts.
IsVersionSep(c) == c = "." \/ c = "-"

\* strings.FieldsFunc(s, IsVersionSep): the maximal runs of non-separators.
RECURSIVE FieldsFunc(_)
FieldsFunc(s) ==
    IF s = <<>> THEN <<>>
    ELSE IF IsVersionSep(s[1]) THEN FieldsFunc(Tail(s))
    ELSE LET stops == {i \in DOMAIN s : IsVersionSep(s[i])}
             k == IF stops = {} THEN Len(s) + 1
                  ELSE CHOOSE i \in stops : \A j \in stops : i <= j
         IN  <<SubSeq(s, 1, k - 1)>> \o FieldsFunc(SubSeq(s, k, Len(s)))

\* strings.Join(parts, ".")
RECURSIVE JoinDots(_)
JoinDots(parts) ==
    IF parts = <<>> THEN <<>>
    ELSE IF Len(parts) = 1 THEN parts[1]
    ELSE parts[1] \o <<".">> \o JoinDots(Tail(parts))

(***************************************************************************)
(* The resolver (package version).                                         *)
(***************************************************************************)

\* parseVersionParts: the numeric fields of a version, non-numeric ones dropped.
RECURSIVE NumericFields(_)
NumericFields(fields) ==
    IF fields = <<>> THEN <<>>
    ELSE LET n == Atoi(fields[1])
         IN  (IF n.ok THEN <<n.val>> ELSE <<>>) \o NumericFields(Tail(fields))

parseVersionParts(version) == NumericFields(FieldsFunc(TrimPrefixV(version)))

\* compareVersionStrings: the difference of the first pair of numeric parts
\* that differ, a missing part counting as 0; 0 when none differ.
compareVersionStrings(a, b) ==
    LET aParts == parseVersionParts(a)
        bParts == parseVersionParts(b)
        maxLen == IF Len(bParts) > Len(aParts) THEN Len(bParts) ELSE Len(aParts)
        aVal(i) == IF i <= Len(aParts) THEN aParts[i] ELSE 0
        bVal(i) == IF i <= Len(bParts) THEN bParts[i] ELSE 0
        diff == {i \in 1..maxLen : aVal(i) # bVal(i)}
    IN  IF diff = {} THEN 0
        ELSE LET i == CHOOSE k \in diff : \A j \in diff : k <= j
             IN  aVal(i) - bVal(i)

\* sort.Slice on a slice of fewer than 12 elements is an insertion sort:
\* element i moves left while less(i, i-1), here while it compares greater.
RECURSIVE InsertDesc(_, _)
InsertDesc(s, x) ==
    IF s = <<>> THEN <<x>>
    ELSE IF compareVersionStrings(x, s[Len(s)]) > 0
         THEN InsertDesc(SubSeq(s, 1, Len(s) - 1), x) \o <<s[Len(s)]>>
         ELSE s \o <<x>>

RECURSIVE sortVersionsDesc(_)
sortVersionsDesc(versions) ==
    IF versions = <<>> THEN <<>>
    ELSE InsertDesc(sortVersionsDesc(SubSeq(versions, 1, Len(versions) - 1)),
                    versions[Len(versions)])

\* A faulty variant of matchesPartial: only the first component is compared.
matchesPartialFirstOnly(version, partialParts) ==
    LET versionParts == Split(TrimPrefixV(version), ".")
        p == Atoi(partialParts[1])
        v == Atoi(versionParts[1])
    IN  /\ Len(versionParts) >= Len(partialParts)
        /\ IF ~p.ok \/ ~v.ok THEN partialParts[1] = versionParts[1]
           ELSE p.val = v.val

\* matchesPartial: every component of the partial equals the version's
\* component at that position, as integers when both parse, else as text.
matchesPartial(version, partialParts) ==
    LET versionParts == Split(TrimPrefixV(version), ".")
    IN  /\ Len(versionParts) >= Len(partialParts)
        /\ \A i \in DOMAIN partialParts :
               LET p == Atoi(partialParts[i])
                   v == Atoi(versionParts[i])
               IN  IF ~p.ok \/ ~v.ok
                   THEN partialParts[i] = versionParts[i]
                   ELSE p.val = v.val

RECURSIVE SelectMatches(_, _)
SelectMatches(avail, parts) ==
    IF avail = <<>> THEN <<>>
    ELSE (IF matchesPartial(avail[1], parts) THEN <<avail[1]>> ELSE <<>>)
         \o SelectMatches(Tail(avail), parts)

\* A faulty variant of ResolvePartialVersion: a full version is looked up too.
ResolvePartialVersionValidating(in, avail) ==
    LET trimmed == TrimPrefixV(in)
        matches == SelectMatches(avail, Split(trimmed, "."))
    IN  IF matches = <<>> THEN [ver |-> <<>>, err |-> TRUE]
        ELSE [ver |-> sortVersionsDesc(matches)[1], err |-> FALSE]

\* ResolvePartialVersion(input, available) -> (string, error)
ResolvePartialVersion(in, avail) ==
    LET trimmed == TrimPrefixV(in)
        inputParts == Split(trimmed, ".")
    IN  IF Len(inputParts) >= 3 THEN [ver |-> trimmed, err |-> FALSE]
        ELSE LET matches == SelectMatches(avail, inputParts)
             IN  IF matches = <<>> THEN [ver |-> <<>>, err |-> TRUE]
                 ELSE [ver |-> sortVersionsDesc(matches)[1], err |-> FALSE]

\* IsPartialVersion(input): fewer than three dot-separated components.
IsPartialVersion(in) == Len(Split(TrimPrefixV(in), ".")) < 3

\* resolveVersionForProvider(provider, input): a full version passes through
\* with its "v" stripped; a partial one is resolved against the versions the
\* provider's ListAvailable returns (the case where that call succeeds).
resolveVersionForProvider(listAvailable, in) ==
    IF ~IsPartialVersion(in) THEN [ver |-> TrimPrefixV(in), err |-> FALSE]
    ELSE ResolvePartialVersion(in, listAvailable)

(***************************************************************************)
(* The inputs of the resolver.  A version is written from its numbers, so  *)
(* that what a text means is known independently of how the code reads it. *)
(***************************************************************************)

MaxAvail == 2

NoPre == <<>>

Ver(v, nums, pre) == [v |-> v, pad |-> FALSE, nums |-> nums, pre |-> pre]

\* The candidate versions a provider may list.
CandidatePool ==
    { Ver(FALSE, <<10, 2, 0>>, NoPre),
      Ver(FALSE, <<10, 2, 2>>, NoPre),
      Ver(FALSE, <<10, 2, 10>>, NoPre),
      Ver(FALSE, <<10, 10, 0>>, NoPre),
      Ver(TRUE,  <<10, 10, 0>>, NoPre),
      Ver(FALSE, <<10, 10, 0>>, <<"r", "c", "1">>),
      Ver(FALSE, <<10, 10, 0>>, <<"1">>),
      Ver(FALSE, <<2, 10, 0>>, NoPre) }

In(v, pad, nums) == [v |-> v, pad |-> pad, nums |-> nums, pre |-> NoPre]

\* The texts a user may type: partial (one or two components) and full.
InputPool ==
    { In(FALSE, FALSE, <<10>>), In(TRUE, FALSE, <<10>>), In(FALSE, TRUE, <<10>>),
      In(FALSE, FALSE, <<2>>), In(FALSE, FALSE, <<9>>),
      In(FALSE, FALSE, <<10, 2>>), In(TRUE, FALSE, <<10, 2>>),
      In(FALSE, FALSE, <<10, 10>>), In(FALSE, FALSE, <<10, 9>>),
      In(FALSE, FALSE, <<2, 2>>),
      In(FALSE, FALSE, <<10, 2, 0>>), In(TRUE, FALSE, <<10, 2, 0>>),
      In(TRUE, FALSE, <<9, 9, 9>>), In(FALSE, FALSE, <<10, 2, 0, 1>>) }

\* The text of a version: [v][0]<n1>.<n2>...[-<pre>]
Render(r) ==
    (IF r.v THEN <<"v">> ELSE <<>>)
    \o (IF r.pad THEN <<"0">> ELSE <<>>)
    \o JoinDots([i \in DOMAIN r.nums |-> Itoa(r.nums[i])])
    \o (IF r.pre = NoPre THEN <<>> ELSE <<"-">> \o r.pre)

\* What a text of the pools was written from.
InputRec == CHOOSE p \in InputPool : Render(p) = input
CandRec(s) == CHOOSE c \in CandidatePool : Render(c) = s

NoResult == [op |-> "none", ver |-> <<>>, err |-> FALSE]
NoCmp == [done |-> FALSE, val |-> 0]

ResolverIdle ==
    /\ input = <<>>
    /\ available = <<>>
    /\ resolved = NoResult
    /\ lastCmp = NoCmp

ResolverInit ==
    /\ input \in {Render(p) : p \in InputPool}
    /\ available = <<>>
    /\ resolved = NoResult
    /\ lastCmp = NoCmp

\* The provider's list grows by one version.
AddAvailable(c) ==
    /\ Len(available) < MaxAvail
    /\ available' = Append(available, Render(c))
    /\ resolved' = NoResult
    /\ lastCmp' = NoCmp
    /\ UNCHANGED input
    /\ UNCHANGED notResolverVars

\* A call of ResolvePartialVersion(input, available).
Resolve ==
    /\ resolved.op = "none"
    /\ LET r == ResolvePartialVersion(input, available)
       IN  resolved' = [op |-> "resolve", ver |-> r.ver, err |-> r.err]
    /\ UNCHANGED <<input, available, lastCmp>>
    /\ UNCHANGED notResolverVars

\* A call of resolveVersionForProvider(provider, input).
ResolveForProvider ==
    /\ resolved.op = "none"
    /\ LET r == resolveVersionForProvider(available, input)
       IN  resolved' = [op |-> "provider", ver |-> r.ver, err |-> r.err]
    /\ UNCHANGED <<input, available, lastCmp>>
    /\ UNCHANGED notResolverVars

\* A call of compareVersionStrings on the first two listed versions.
Compare ==
    /\ Len(available) >= 2
    /\ ~lastCmp.done
    /\ lastCmp' = [done |-> TRUE,
                   val |-> compareVersionStrings(available[1], available[2])]
    /\ UNCHANGED <<input, available, resolved>>
    /\ UNCHANGED notResolverVars

ResolverNext ==
    \/ \E c \in CandidatePool : AddAvailable(c)
    \/ Resolve
    \/ ResolveForProvider
    \/ Compare


(***************************************************************************)
(* The resolver's claims.                                                  *)
(***************************************************************************)

IsPartialInput == Len(InputRec.nums) < 3

\* The version order of the data model: by numeric component, major first,
\* a missing component counting as 0; and a pre-release below its release.
NumsLess(a, b) ==
    LET n == IF Len(a) > Len(b) THEN Len(a) ELSE Len(b)
        at(x, i) == IF i <= Len(x) THEN x[i] ELSE 0
    IN  \E i \in 1..n :
            /\ at(a, i) < at(b, i)
            /\ \A j \in 1..(i - 1) : at(a, j) = at(b, j)

VersionLess(a, b) ==
    \/ NumsLess(a.nums, b.nums)
    \/ (~NumsLess(b.nums, a.nums) /\ a.pre # NoPre /\ b.pre = NoPre)

\* The leading components of candidate c equal, as numbers, those of p.
LeadingEqual(c, p) ==
    /\ Len(c.nums) >= Len(p.nums)
    /\ \A i \in DOMAIN p.nums : c.nums[i] = p.nums[i]

MatchingCandidates ==
    {i \in DOMAIN available : LeadingEqual(CandRec(available[i]), InputRec)}

\* C1: for a partial input with a matching candidate, ResolvePartialVersion
\* (and resolveVersionForProvider over the same list) returns, without error,
\* a member of the list whose leading components equal the input's as
\* numbers and below which, in the version order, no other such member lies.
ResolveReturnsMaximum ==
    (resolved.op # "none" /\ IsPartialInput /\ MatchingCandidates # {}) =>
        /\ ~resolved.err
        /\ \E i \in MatchingCandidates :
              /\ available[i] = resolved.ver
              /\ \A j \in MatchingCandidates :
                    ~VersionLess(CandRec(available[i]), CandRec(available[j]))

\* The part of C1 that the code does meet: among release versions only (no
\* pre-release tag in the list) the result is the maximum.
ResolveReturnsMaximumOfReleases ==
    (/\ resolved.op # "none" /\ IsPartialInput /\ MatchingCandidates # {}
     /\ \A i \in DOMAIN available : CandRec(available[i]).pre = NoPre) =>
        /\ ~resolved.err
        /\ \E i \in MatchingCandidates :
              /\ available[i] = resolved.ver
              /\ \A j \in MatchingCandidates :
                    ~VersionLess(CandRec(available[i]), CandRec(available[j]))

\* C2: an input of three or more components comes back as it was typed, less
\* one leading "v", without error, whatever the candidate list holds.
FullVersionPassthrough ==
    (resolved.op = "resolve" /\ ~IsPartialInput) =>
        /\ ~resolved.err
        /\ resolved.ver = Render([InputRec EXCEPT !.v = FALSE])

\* C2's case: a full input with a "v", resolved against a non-empty list
\* that does not hold it.
FullVersionNotListedResolved ==
    /\ resolved.op = "resolve"
    /\ ~IsPartialInput
    /\ InputRec.v
    /\ available # <<>>
    /\ \A i \in DOMAIN available : available[i] # resolved.ver

\* C3: a partial input that no candidate matches fails: an error and the
\* empty string, the same outcome for an empty list as for a list without a
\* match.
NoMatchFails ==
    (resolved.op = "resolve" /\ IsPartialInput /\ MatchingCandidates = {}) =>
        /\ resolved.err
        /\ resolved.ver = <<>>

\* C3's case: a partial input resolved against a full list that shares its
\* major number but holds no match.
NoMatchInListResolved ==
    /\ resolved.op = "resolve"
    /\ IsPartialInput
    /\ Len(available) = MaxAvail
    /\ MatchingCandidates = {}
    /\ \E i \in DOMAIN available :
           CandRec(available[i]).nums[1] = InputRec.nums[1]

\* C4: compareVersionStrings is negative exactly when its first argument is
\* below the second in the version order (numeric components, then a
\* pre-release below its release), and positive exactly when it is above.
CompareIsVersionOrder ==
    lastCmp.done =>
        LET a == CandRec(available[1])
            b == CandRec(available[2])
        IN  /\ (lastCmp.val < 0) <=> VersionLess(a, b)
            /\ (lastCmp.val > 0) <=> VersionLess(b, a)

\* The part of C4 that the code does meet: on release versions the sign of
\* compareVersionStrings is the numeric order of the components.
CompareIsNumericOnReleases ==
    (lastCmp.done /\ CandRec(available[1]).pre = NoPre
                  /\ CandRec(available[2]).pre = NoPre) =>
        LET a == CandRec(available[1])
            b == CandRec(available[2])
        IN  /\ (lastCmp.val < 0) <=> NumsLess(a.nums, b.nums)
            /\ (lastCmp.val > 0) <=> NumsLess(b.nums, a.nums)

\* The candidate list in another order: entry i is the entry at f[i].
Reordered(avail, f) == [i \in 1..Len(avail) |-> avail[f[i]]]

\* C30: what ResolvePartialVersion returns does not depend on the order
\* of the candidates: called on the same candidates in any other order
\* it returns the same version, also when candidates compare equal.
ResolveIsOrderIndependent ==
    (resolved.op = "resolve" /\ available # <<>>) =>
        \A f \in Permutations(1..Len(available)) :
            ResolvePartialVersion(input, Reordered(available, f)) =
                [ver |-> resolved.ver, err |-> resolved.err]

\* The part of C30 that the code does meet: the result is the same in
\* every order when no two matching candidates compare equal.
ResolveIsOrderIndependentWithoutTies ==
    (/\ resolved.op = "resolve"
     /\ available # <<>>
     /\ \A i, j \in 1..Len(available) :
            (/\ i # j
             /\ matchesPartial(available[i], Split(TrimPrefixV(input), "."))
             /\ matchesPartial(available[j], Split(TrimPrefixV(input), ".")))
            => compareVersionStrings(available[i], available[j]) # 0) =>
        \A f \in Permutations(1..Len(available)) :
            ResolvePartialVersion(input, Reordered(available, f)) =
                [ver |-> resolved.ver, err |-> resolved.err]

(***************************************************************************)
(* Part 2.  Install(version) of one version of one runtime, by several     *)
(* processes at once (spec 4.3 and 5):                                     *)
(*   NotPresent -> Staging -> Verifying -> Extracting -> PostInstall ->    *)
(*   Installed                                                             *)
(* The archive is downloaded to a temporary file, its checksum verified,   *)
(* its files extracted into a temporary sibling of the install directory,  *)
(* the post-install step run there, and the sibling renamed into place.    *)
(***************************************************************************)

NumInstallers == 2
NumFiles == 2

Installers == 1..NumInstallers

\* What a complete install directory holds: the archive's files and what the
\* post-install step adds.
ArchiveFiles == {<<"file", f>> : f \in 1..NumFiles}
PostInstallFile == <<"postinstall", 0>>
FullContent == ArchiveFiles \cup {PostInstallFile}

AbsentDir == [exists |-> FALSE, files |-> {}]
EmptyDir == [exists |-> TRUE, files |-> {}]

\* The install directory of the version, and the staging directories.
FinalDir == <<"versions", 0>>
SharedStagingDir == <<"staging", 0>>

\* A faulty variant of StagingDir: one staging directory shared by every process.
StagingDirShared(p) == SharedStagingDir

\* The temporary sibling process p stages into: its own.
StagingDir(p) == <<"staging", p>>

\* A faulty variant of ExtractTarget: the archive is unpacked in place.
ExtractTargetInPlace(p) == FinalDir

\* Where process p unpacks the archive: its staging directory.
ExtractTarget(p) == StagingDir(p)

Paths == {FinalDir, SharedStagingDir} \cup {<<"staging", p>> : p \in Installers}

\* ListInstalled: the versions whose directory exists under the versions
\* root (the filesystem is the index).
ListInstalled == IF fs[FinalDir].exists THEN {"version"} ELSE {}

\* IsInstalled(version)
IsInstalled == "version" \in ListInstalled

WriteFile(dirs, path, f) ==
    [dirs EXCEPT ![path] = [exists |-> TRUE, files |-> dirs[path].files \cup {f}]]

\* Removing process p's temporary artifacts.
CleanedUp(dirs, p) == [dirs EXCEPT ![StagingDir(p)] = AbsentDir]

InstallIdle ==
    /\ ipc = [p \in Installers |-> "idle"]
    /\ fs = [d \in Paths |-> AbsentDir]
    /\ download = [p \in Installers |-> FALSE]
    /\ progress = [p \in Installers |-> {}]

InstallInit == InstallIdle

InFlight == {"staging", "verifying", "extracting", "postinstall", "renaming"}

\* Install begins: an installed version is reported as such, the install is
\* not repeated; otherwise the download is started.
StartInstall(p) ==
    /\ ipc[p] = "idle"
    /\ ipc' = [ipc EXCEPT ![p] = IF IsInstalled THEN "already" ELSE "staging"]
    /\ UNCHANGED <<fs, download, progress>>
    /\ UNCHANGED notInstallVars

\* Staging: the archive is downloaded to a temporary file.
Download(p) ==
    /\ ipc[p] = "staging"
    /\ download' = [download EXCEPT ![p] = TRUE]
    /\ ipc' = [ipc EXCEPT ![p] = "verifying"]
    /\ UNCHANGED <<fs, progress>>
    /\ UNCHANGED notInstallVars

\* Verifying: the checksum matches, or the source publishes none (a warning);
\* the staging directory is created.
VerifyOk(p) ==
    /\ ipc[p] = "verifying"
    /\ fs' = [fs EXCEPT ![StagingDir(p)] = EmptyDir]
    /\ progress' = [progress EXCEPT ![p] = {}]
    /\ ipc' = [ipc EXCEPT ![p] = "extracting"]
    /\ UNCHANGED download
    /\ UNCHANGED notInstallVars

\* Extracting: one more file of the archive is written.
ExtractFile(p, f) ==
    /\ ipc[p] = "extracting"
    /\ f \in ArchiveFiles \ progress[p]
    /\ fs' = WriteFile(fs, ExtractTarget(p), f)
    /\ progress' = [progress EXCEPT ![p] = @ \cup {f}]
    /\ UNCHANGED <<ipc, download>>
    /\ UNCHANGED notInstallVars

ExtractDone(p) ==
    /\ ipc[p] = "extracting"
    /\ progress[p] = ArchiveFiles
    /\ ipc' = [ipc EXCEPT ![p] = "postinstall"]
    /\ UNCHANGED <<fs, download, progress>>
    /\ UNCHANGED notInstallVars

\* PostInstall: the runtime-specific step, run on the unpacked files.
PostInstall(p) ==
    /\ ipc[p] = "postinstall"
    /\ fs' = WriteFile(fs, ExtractTarget(p), PostInstallFile)
    /\ ipc' = [ipc EXCEPT ![p] = "renaming"]
    /\ UNCHANGED <<download, progress>>
    /\ UNCHANGED notInstallVars

\* The rename of the staging directory into place: one atomic step that
\* replaces whatever the install directory held; the download is removed.
Rename(p) ==
    /\ ipc[p] = "renaming"
    /\ fs[StagingDir(p)].exists
    /\ fs' = [fs EXCEPT ![FinalDir] = fs[StagingDir(p)],
                        ![StagingDir(p)] = AbsentDir]
    /\ download' = [download EXCEPT ![p] = FALSE]
    /\ ipc' = [ipc EXCEPT ![p] = "installed"]
    /\ UNCHANGED progress
    /\ UNCHANGED notInstallVars

\* A failure before the rename (no descriptor, a failed download, a checksum
\* mismatch, a failed extraction or post-install step, a staging directory
\* that is gone): the temporary artifacts are removed, Install returns an error.
InstallFails(p) ==
    /\ ipc[p] \in InFlight
    /\ fs' = CleanedUp(fs, p)
    /\ download' = [download EXCEPT ![p] = FALSE]
    /\ ipc' = [ipc EXCEPT ![p] = "failed"]
    /\ UNCHANGED progress
    /\ UNCHANGED notInstallVars

\* The process is killed before the rename: nothing is cleaned up.
Crash(p) ==
    /\ ipc[p] \in InFlight
    /\ ipc' = [ipc EXCEPT ![p] = "crashed"]
    /\ UNCHANGED <<fs, download, progress>>
    /\ UNCHANGED notInstallVars

\* The user runs the install again after an error.
Retry(p) ==
    /\ ipc[p] = "failed"
    /\ ipc' = [ipc EXCEPT ![p] = "idle"]
    /\ progress' = [progress EXCEPT ![p] = {}]
    /\ UNCHANGED <<fs, download>>
    /\ UNCHANGED notInstallVars

InstallNext ==
    \E p \in Installers :
        \/ StartInstall(p)
        \/ Download(p)
        \/ VerifyOk(p)
        \/ \E f \in ArchiveFiles : ExtractFile(p, f)
        \/ ExtractDone(p)
        \/ PostInstall(p)
        \/ Rename(p)
        \/ InstallFails(p)
        \/ Crash(p)
        \/ Retry(p)

(***************************************************************************)
(* The claims on Install.                                                  *)
(***************************************************************************)

NoRenameYet == \A p \in Installers : ipc[p] # "installed"

\* C5: as long as no process has made its final rename, whatever has failed
\* or crashed while staging, verifying, extracting or post-installing, the
\* version is not listed as installed and its directory is not present.
NotVisibleBeforeRename ==
    NoRenameYet => (ListInstalled = {} /\ fs[FinalDir] = AbsentDir)

\* C5's case: one process crashed after extracting and before the rename,
\* another failed, and nobody has renamed.
CrashedBeforeRename ==
    /\ NoRenameYet
    /\ \E p \in Installers :
          /\ ipc[p] = "crashed"
          /\ progress[p] = ArchiveFiles
          /\ fs[StagingDir(p)].files = FullContent
    /\ \E p \in Installers : ipc[p] = "failed"

\* C6: the install directory never holds a part of an install, and once
\* every process has renamed its staging directory into place the version is
\* installed with exactly what a single install leaves.
ConcurrentInstallNeverPartial ==
    /\ fs[FinalDir].exists => fs[FinalDir].files = FullContent
    /\ (\A p \in Installers : ipc[p] = "installed") =>
           (IsInstalled /\ fs[FinalDir] = [exists |-> TRUE, files |-> FullContent])

\* C6's case: two processes have both staged and both renamed into place.
BothRenamed ==
    /\ \A p \in Installers : ipc[p] = "installed"
    /\ Cardinality(Installers) >= 2

(***************************************************************************)
(* Part 3.  The manifest sources (spec 4.2) and the default chain.         *)
(***************************************************************************)

DefaultCacheTTL == 24
TickHours == 12
MaxClock == 48

EmbeddedManifest == "embedded"
RemoteManifests == {"remote-1", "remote-2"}

NoCache == [present |-> FALSE, payload |-> "", ts |-> 0]

\* The constructors of the four sources.
NewHTTPSource == [kind |-> "http"]
NewCachedSource(inner, ttl) == [kind |-> "cached", inner |-> inner, ttl |-> ttl]
NewEmbeddedSource == [kind |-> "embedded"]
NewFallbackSource(primary, secondary) ==
    [kind |-> "fallback", primary |-> primary, secondary |-> secondary]

\* A faulty variant of createDefaultSource: no embedded fallback.
createDefaultSourceNoFallback == NewCachedSource(NewHTTPSource, DefaultCacheTTL)

\* A faulty variant of createDefaultSource: the remote source is not cached.
createDefaultSourceNoCache == NewFallbackSource(NewHTTPSource, NewEmbeddedSource)

\* A faulty variant of createDefaultSource: the two layers in the wrong order.
createDefaultSourceEmbeddedFirst ==
    NewFallbackSource(NewEmbeddedSource,
                      NewCachedSource(NewHTTPSource, DefaultCacheTTL))

\* createDefaultSource: Fallback(Cached(Remote, DefaultCacheTTL), Embedded)
createDefaultSource ==
    NewFallbackSource(NewCachedSource(NewHTTPSource, DefaultCacheTTL),
                      NewEmbeddedSource)

\* A cache entry is valid while now - timestamp < TTL.
CacheFresh(c, t, ttl) == c.present /\ t - c.ts < ttl

\* FetchManifest(runtime) on a source, against the disk cache c at time t:
\* the manifest or an error, the cache it leaves, the network calls it
\* made and the layer that served the manifest.
RECURSIVE FetchManifest(_, _, _)
FetchManifest(src, c, t) ==
    CASE src.kind = "embedded" ->
           [manifest |-> EmbeddedManifest, err |-> FALSE, cache |-> c,
            net |-> 0, origin |-> "embedded"]
      [] src.kind = "http" ->
           IF remoteUp
           THEN [manifest |-> remoteManifest, err |-> FALSE, cache |-> c,
                 net |-> 1, origin |-> "remote"]
           ELSE [manifest |-> "", err |-> TRUE, cache |-> c,
                 net |-> 1, origin |-> "none"]
      [] src.kind = "cached" ->
           IF CacheFresh(c, t, src.ttl)
           THEN [manifest |-> c.payload, err |-> FALSE, cache |-> c,
                 net |-> 0, origin |-> "cache"]
           ELSE LET r == FetchManifest(src.inner, c, t)
                IN  IF ~r.err
                    THEN [r EXCEPT !.cache = [present |-> TRUE,
                                              payload |-> r.manifest,
                                              ts |-> t]]
                    ELSE IF r.cache.present
                    THEN [manifest |-> r.cache.payload, err |-> FALSE,
                          cache |-> r.cache, net |-> r.net, origin |-> "stale"]
                    ELSE r
      [] src.kind = "fallback" ->
           LET r == FetchManifest(src.primary, c, t)
           IN  IF ~r.err THEN r
               ELSE LET q == FetchManifest(src.secondary, r.cache, t)
                    IN  IF ~q.err THEN [q EXCEPT !.net = r.net + q.net]
                        ELSE [r EXCEPT !.cache = q.cache, !.net = r.net + q.net]

NoFetch ==
    [done |-> FALSE, time |-> 0, manifest |-> "", err |-> FALSE, net |-> 0,
     origin |-> "none", remoteWasUp |-> FALSE, cacheBefore |-> NoCache]

ManifestIdle ==
    /\ now = 0
    /\ cache = NoCache
    /\ remoteUp = TRUE
    /\ remoteManifest = "remote-1"
    /\ lastFetch = NoFetch
    /\ prevFetch = NoFetch

\* A process starts with or without a cache file left by an earlier run.
ManifestInit ==
    /\ now = 0
    /\ cache \in {NoCache, [present |-> TRUE, payload |-> "remote-1", ts |-> 0]}
    /\ remoteUp \in BOOLEAN
    /\ remoteManifest = "remote-1"
    /\ lastFetch = NoFetch
    /\ prevFetch = NoFetch

\* Time passes.
Tick ==
    /\ now + TickHours <= MaxClock
    /\ now' = now + TickHours
    /\ UNCHANGED <<cache, remoteUp, remoteManifest, lastFetch, prevFetch>>
    /\ UNCHANGED notManifestVars

\* The network or the remote endpoint fails, or recovers.
RemoteToggles ==
    /\ remoteUp' = ~remoteUp
    /\ UNCHANGED <<now, cache, remoteManifest, lastFetch, prevFetch>>
    /\ UNCHANGED notManifestVars

\* The remote authority publishes another manifest.
RemotePublishes(m) ==
    /\ m # remoteManifest
    /\ remoteManifest' = m
    /\ UNCHANGED <<now, cache, remoteUp, lastFetch, prevFetch>>
    /\ UNCHANGED notManifestVars

\* DefaultSource().FetchManifest(runtime)
Fetch ==
    LET r == FetchManifest(createDefaultSource, cache, now)
    IN  /\ cache' = r.cache
        /\ prevFetch' = lastFetch
        /\ lastFetch' = [done |-> TRUE, time |-> now, manifest |-> r.manifest,
                         err |-> r.err, net |-> r.net, origin |-> r.origin,
                         remoteWasUp |-> remoteUp, cacheBefore |-> cache]
        /\ UNCHANGED <<now, remoteUp, remoteManifest>>
        /\ UNCHANGED notManifestVars

ManifestNext ==
    \/ Tick
    \/ RemoteToggles
    \/ \E m \in RemoteManifests : RemotePublishes(m)
    \/ Fetch

(***************************************************************************)
(* The claims on the manifest chain.                                       *)
(***************************************************************************)

\* C7: a fetch made while the remote fails and no cache entry exists
\* returns the embedded manifest and no error.
EmbeddedWhenRemoteFailsAndNoCache ==
    (lastFetch.done /\ ~lastFetch.remoteWasUp /\ ~lastFetch.cacheBefore.present) =>
        (~lastFetch.err /\ lastFetch.manifest = EmbeddedManifest)

\* C7's case: the remote was tried, failed, and there was no cache entry.
FetchedWithRemoteDownAndNoCache ==
    /\ lastFetch.done
    /\ ~lastFetch.remoteWasUp
    /\ ~lastFetch.cacheBefore.present
    /\ lastFetch.net = 1

\* C8 as it is stated, of any two fetches one after the other less than
\* the TTL apart: the second returns the manifest of the first from the
\* disk cache, and the two make exactly one network call.
AnyTwoFetchesWithinTTLOneNetworkCall ==
    (/\ prevFetch.done /\ lastFetch.done
     /\ lastFetch.time - prevFetch.time < DefaultCacheTTL) =>
        /\ ~lastFetch.err
        /\ lastFetch.manifest = prevFetch.manifest
        /\ prevFetch.net + lastFetch.net = 1
        /\ lastFetch.origin = "cache"

\* C8: when a fetch has gone to the network and cached what it got, the
\* next fetch, made less than the TTL later, returns the identical manifest
\* from the disk cache without a network call: one network call for the two.
SecondFetchWithinTTLFromCache ==
    (/\ prevFetch.done /\ lastFetch.done
     /\ prevFetch.origin = "remote"
     /\ lastFetch.time - prevFetch.time < DefaultCacheTTL) =>
        /\ ~lastFetch.err
        /\ lastFetch.manifest = prevFetch.manifest
        /\ prevFetch.net + lastFetch.net = 1
        /\ lastFetch.origin = "cache"

\* C8's case: the second fetch is made later than the first, within the TTL,
\* after the remote has published another manifest.
SecondFetchLaterWithinTTL ==
    /\ prevFetch.done /\ lastFetch.done
    /\ prevFetch.origin = "remote"
    /\ lastFetch.time > prevFetch.time
    /\ lastFetch.time - prevFetch.time < DefaultCacheTTL
    /\ remoteUp
    /\ remoteManifest # prevFetch.manifest

\* C9: a fetch made while the cache entry is past its TTL and the remote
\* fails returns the stale entry without error; the embedded manifest is
\* served only when there was no cache entry at all.
StaleCacheWhenRemoteFails ==
    /\ (/\ lastFetch.done
        /\ lastFetch.cacheBefore.present
        /\ ~CacheFresh(lastFetch.cacheBefore, lastFetch.time, DefaultCacheTTL)
        /\ ~lastFetch.remoteWasUp) =>
           /\ ~lastFetch.err
           /\ lastFetch.manifest = lastFetch.cacheBefore.payload
           /\ lastFetch.origin = "stale"
    /\ (lastFetch.done /\ lastFetch.origin = "embedded") =>
           ~lastFetch.cacheBefore.present

\* C9's case: the entry was past its TTL, the remote was tried and failed.
FetchedWithStaleCacheAndRemoteDown ==
    /\ lastFetch.done
    /\ lastFetch.cacheBefore.present
    /\ lastFetch.time - lastFetch.cacheBefore.ts >= DefaultCacheTTL
    /\ ~lastFetch.remoteWasUp
    /\ lastFetch.net = 1

(***************************************************************************)
(* Part 4.  DefaultSource and ResetDefaultSource (package manifest).       *)
(*                                                                         *)
(*   func DefaultSource() Source {                                         *)
(*       defaultSourceOnce.Do(func() {                                     *)
(*           defaultSource = createDefaultSource()                         *)
(*       })                                                                *)
(*       return defaultSource                                              *)
(*   }                                                                     *)
(*                                                                         *)
(* sync.Once.Do(f) reads the done flag; when it is 0 it takes the mutex,   *)
(* reads the flag again, runs f when it is still 0, sets the flag and      *)
(* releases the mutex.  Each of these is a step of the calling goroutine.  *)
(***************************************************************************)

NumGoroutines == 2
MaxInstances == 2
MaxResets == 1

Goroutines == 1..NumGoroutines

\* A source instance is told from another by its address.
NilSource == [addr |-> 0, chain |-> [kind |-> "nil"]]
Instance(n) == [addr |-> n, chain |-> createDefaultSource]

SourceIdle ==
    /\ defaultSource = NilSource
    /\ onceDone = FALSE
    /\ onceLocked = FALSE
    /\ gpc = [g \in Goroutines |-> "idle"]
    /\ made = [g \in Goroutines |-> NilSource]
    /\ nextInstance = 0
    /\ resetPc = "idle"
    /\ resets = 0
    /\ createdSinceReset = 0
    /\ returnedSinceReset = {}
    /\ raced = FALSE
    /\ slowPath = {}

SourceInit == SourceIdle

InCall == {g \in Goroutines : gpc[g] \notin {"idle", "fatal"}}

\* A faulty variant of OnceStillNeeded: doSlow runs f without reading done again.
OnceStillNeededUnchecked == TRUE

\* doSlow's test under the mutex: f runs only if done is still 0.
OnceStillNeeded == ~onceDone

\* A goroutine calls DefaultSource().
CallDefaultSource(g) ==
    /\ gpc[g] = "idle"
    /\ gpc' = [gpc EXCEPT ![g] = "load"]
    /\ raced' = (raced \/ resetPc # "idle")
    /\ UNCHANGED <<defaultSource, onceDone, onceLocked, made, nextInstance,
                   resetPc, resets, createdSinceReset, returnedSinceReset,
                   slowPath>>
    /\ UNCHANGED notSourceVars

\* Once.Do: if o.done.Load() == 0 { o.doSlow(f) }
OnceLoad(g) ==
    /\ gpc[g] = "load"
    /\ gpc' = [gpc EXCEPT ![g] = IF onceDone THEN "return" ELSE "lock"]
    /\ slowPath' = IF onceDone THEN slowPath ELSE slowPath \cup {g}
    /\ UNCHANGED <<defaultSource, onceDone, onceLocked, made, nextInstance,
                   resetPc, resets, createdSinceReset, returnedSinceReset,
                   raced>>
    /\ UNCHANGED notSourceVars

\* doSlow: o.m.Lock()
OnceLock(g) ==
    /\ gpc[g] = "lock"
    /\ ~onceLocked
    /\ onceLocked' = TRUE
    /\ gpc' = [gpc EXCEPT ![g] = IF OnceStillNeeded THEN "create" ELSE "unlock"]
    /\ UNCHANGED <<defaultSource, onceDone, made, nextInstance, resetPc,
                   resets, createdSinceReset, returnedSinceReset, raced,
                   slowPath>>
    /\ UNCHANGED notSourceVars

\* f: createDefaultSource() builds a new chain.
OnceCreate(g) ==
    /\ gpc[g] = "create"
    /\ nextInstance < MaxInstances
    /\ nextInstance' = nextInstance + 1
    /\ made' = [made EXCEPT ![g] = Instance(nextInstance + 1)]
    /\ createdSinceReset' = createdSinceReset + 1
    /\ gpc' = [gpc EXCEPT ![g] = "assign"]
    /\ UNCHANGED <<defaultSource, onceDone, onceLocked, resetPc, resets,
                   returnedSinceReset, raced, slowPath>>
    /\ UNCHANGED notSourceVars

\* f: defaultSource = <the new chain>
OnceAssign(g) ==
    /\ gpc[g] = "assign"
    /\ defaultSource' = made[g]
    /\ made' = [made EXCEPT ![g] = NilSource]
    /\ gpc' = [gpc EXCEPT ![g] = "store"]
    /\ UNCHANGED <<onceDone, onceLocked, nextInstance, resetPc, resets,
                   createdSinceReset, returnedSinceReset, raced, slowPath>>
    /\ UNCHANGED notSourceVars

\* doSlow: defer o.done.Store(1)
OnceStore(g) ==
    /\ gpc[g] = "store"
    /\ onceDone' = TRUE
    /\ gpc' = [gpc EXCEPT ![g] = "unlock"]
    /\ UNCHANGED <<defaultSource, onceLocked, made, nextInstance, resetPc,
                   resets, createdSinceReset, returnedSinceReset, raced,
                   slowPath>>
    /\ UNCHANGED notSourceVars

\* doSlow: defer o.m.Unlock(); unlocking a mutex that is not locked (a reset
\* has overwritten it) is a fatal error of the Go runtime.
OnceUnlock(g) ==
    /\ gpc[g] = "unlock"
    /\ onceLocked' = FALSE
    /\ gpc' = IF onceLocked THEN [gpc EXCEPT ![g] = "return"]
              ELSE [h \in Goroutines |-> "fatal"]
    /\ UNCHANGED <<defaultSource, onceDone, made, nextInstance, resetPc,
                   resets, createdSinceReset, returnedSinceReset, raced,
                   slowPath>>
    /\ UNCHANGED notSourceVars

\* return defaultSource
ReturnDefaultSource(g) ==
    /\ gpc[g] = "return"
    /\ returnedSinceReset' = returnedSinceReset \cup {defaultSource}
    /\ gpc' = [gpc EXCEPT ![g] = "idle"]
    /\ UNCHANGED <<defaultSource, onceDone, onceLocked, made, nextInstance,
                   resetPc, resets, createdSinceReset, raced, slowPath>>
    /\ UNCHANGED notSourceVars

\* ResetDefaultSource: defaultSourceOnce = sync.Once{}
ResetOnce ==
    /\ resetPc = "idle"
    /\ resets < MaxResets
    /\ onceDone' = FALSE
    /\ onceLocked' = FALSE
    /\ resetPc' = "clear"
    /\ createdSinceReset' = 0
    /\ returnedSinceReset' = {}
    /\ slowPath' = {}
    /\ raced' = (InCall # {})
    /\ UNCHANGED <<defaultSource, gpc, made, nextInstance, resets>>
    /\ UNCHANGED notSourceVars

\* ResetDefaultSource: defaultSource = nil
ResetSource ==
    /\ resetPc = "clear"
    /\ defaultSource' = NilSource
    /\ resetPc' = "idle"
    /\ resets' = resets + 1
    /\ raced' = (raced \/ InCall # {})
    /\ UNCHANGED <<onceDone, onceLocked, gpc, made, nextInstance,
                   createdSinceReset, returnedSinceReset, slowPath>>
    /\ UNCHANGED notSourceVars

SourceNext ==
    \/ \E g \in Goroutines :
          \/ CallDefaultSource(g)
          \/ OnceLoad(g)
          \/ OnceLock(g)
          \/ OnceCreate(g)
          \/ OnceAssign(g)
          \/ OnceStore(g)
          \/ OnceUnlock(g)
          \/ ReturnDefaultSource(g)
    \/ ResetOnce
    \/ ResetSource

(***************************************************************************)
(* The claim on DefaultSource.                                             *)
(***************************************************************************)

\* C10: since the process started, or since the last ResetDefaultSource
\* (one that no call of DefaultSource overlapped), createDefaultSource has
\* run at most once, and every call of DefaultSource that has returned,
\* racing or not, returned the one instance it built.
DefaultSourceBuiltOnce ==
    ~raced =>
        /\ createdSinceReset <= 1
        /\ \A src \in returnedSinceReset :
              /\ src # NilSource
              /\ src = defaultSource
              /\ createdSinceReset = 1
        /\ Cardinality(returnedSinceReset) <= 1

\* C10's case: after a reset, every goroutine found the flag at 0 and went
\* through doSlow, and a call has returned.
RacingCallsReturnedAfterReset ==
    /\ ~raced
    /\ resets >= 1
    /\ slowPath = Goroutines
    /\ Cardinality(Goroutines) >= 2
    /\ returnedSinceReset # {}
    /\ \A g \in Goroutines : gpc[g] = "idle"

(***************************************************************************)
(* Part 5: version selection, the list command and the shim dispatcher.    *)
(*                                                                         *)
(* One runtime.  The directories are the ancestors of the deepest working  *)
(* directory, named by their depth: 0 is the filesystem root and the       *)
(* parent of d is d - 1.  A selection is a version string, "" when unset.  *)
(* printVersionLine is the code of the list command; config.LocalVersion,  *)
(* CurrentVersion and the shim dispatcher are not among the sources and    *)
(* follow spec 3 and 4.4.                                                  *)
(***************************************************************************)

MaxDepth == 2

Dirs == 0..MaxDepth

\* The versions ListInstalled reports, and the versions a selection may name
\* ("C" is selected but not installed).
InstalledVersions == {"A", "B"}
SelectableVersions == {"A", "B", "C"}

Unset == ""

NoList == [printed |-> FALSE]
NoCurrent == [called |-> FALSE]
ShimIdle == [pc |-> "idle", local |-> Unset, global |-> Unset,
             version |-> Unset, err |-> "none", started |-> "none"]

\* config.LocalVersion: walk from the working directory up to the root; the
\* first directory with a local version for the runtime wins.
RECURSIVE LocalVersionFrom(_, _)
LocalVersionFrom(cfg, d) ==
    IF cfg[d] # Unset THEN cfg[d]
    ELSE IF d = 0 THEN Unset
    ELSE LocalVersionFrom(cfg, d - 1)

LocalVersion == LocalVersionFrom(localCfg, cwd)

GlobalVersion == globalSel

\* CurrentVersion: the local selection if there is one, else the global one,
\* else an explicit failure.
CurrentVersion(localVersion, globalVersion) ==
    IF localVersion # Unset THEN [version |-> localVersion, err |-> "none"]
    ELSE IF globalVersion # Unset THEN [version |-> globalVersion, err |-> "none"]
    ELSE [version |-> Unset, err |-> "NoActiveVersion"]

\* A faulty variant of printVersionLine: the global version is shown active
\* even under a local selection.
printVersionLineGlobalAlways(version, globalVersion, localVersion) ==
    LET isGlobal == version = globalVersion
        isLocal == version = localVersion
    IN  [isActive |-> isLocal \/ isGlobal,
         localIndicator |-> isLocal,
         globalIndicator |-> isGlobal]

\* printVersionLine: what one line of the list shows.
printVersionLine(version, globalVersion, localVersion) ==
    LET isGlobal == version = globalVersion
        isLocal == version = localVersion
        isActive == isLocal \/ (isGlobal /\ localVersion = Unset)
    IN  [isActive |-> isActive,
         localIndicator |-> isLocal,
         globalIndicator |-> isGlobal]

\* A faulty variant of ShimResolve: without a selection the shim falls back
\* to the system's copy.
ShimResolveSystemFallback(cur) ==
    IF cur.err = "NoActiveVersion"
    THEN [pc |-> "ready", err |-> "none", target |-> "system"]
    ELSE IF cur.version \notin InstalledVersions
    THEN [pc |-> "failed", err |-> "SelectedVersionNotInstalled", target |-> "none"]
    ELSE [pc |-> "ready", err |-> "none", target |-> cur.version]

\* Steps 3 and 4 of the dispatcher: fail fast, or name the real executable.
ShimResolve(cur) ==
    IF cur.err = "NoActiveVersion"
    THEN [pc |-> "failed", err |-> "NoActiveVersion", target |-> "none"]
    ELSE IF cur.version \notin InstalledVersions
    THEN [pc |-> "failed", err |-> "SelectedVersionNotInstalled", target |-> "none"]
    ELSE [pc |-> "ready", err |-> "none", target |-> cur.version]

SelectionIdle ==
    /\ cwd = 0
    /\ localCfg = [d \in Dirs |-> Unset]
    /\ globalSel = Unset
    /\ listed = NoList
    /\ current = NoCurrent
    /\ shim = ShimIdle

SelectionInit ==
    /\ cwd = MaxDepth
    /\ localCfg = [d \in Dirs |-> Unset]
    /\ globalSel = Unset
    /\ listed = NoList
    /\ current = NoCurrent
    /\ shim = ShimIdle

\* cd: the outputs shown so far no longer describe the present directory.
Chdir(d) ==
    /\ d # cwd
    /\ cwd' = d
    /\ listed' = NoList
    /\ current' = NoCurrent
    /\ UNCHANGED <<localCfg, globalSel, shim>>
    /\ UNCHANGED notSelectionVars

\* SetGlobalVersion(v); v = "" is the unsetting done by Uninstall.
SetGlobalVersion(v) ==
    /\ v # globalSel
    /\ globalSel' = v
    /\ listed' = NoList
    /\ current' = NoCurrent
    /\ UNCHANGED <<cwd, localCfg, shim>>
    /\ UNCHANGED notSelectionVars

\* SetLocalVersion(v), written in the working directory.
SetLocalVersion(v) ==
    /\ v # localCfg[cwd]
    /\ localCfg' = [localCfg EXCEPT ![cwd] = v]
    /\ listed' = NoList
    /\ current' = NoCurrent
    /\ UNCHANGED <<cwd, globalSel, shim>>
    /\ UNCHANGED notSelectionVars

\* listSingleRuntime: one printVersionLine per installed version.
ListSingleRuntime ==
    /\ listed = NoList
    /\ LET globalVersion == GlobalVersion
           localVersion == LocalVersion
       IN  listed' = [printed |-> TRUE,
                      lines |-> [v \in InstalledVersions |->
                                    printVersionLine(v, globalVersion, localVersion)]]
    /\ UNCHANGED <<cwd, localCfg, globalSel, current, shim>>
    /\ UNCHANGED notSelectionVars

\* provider.CurrentVersion(), called from the working directory.
CallCurrentVersion ==
    /\ current = NoCurrent
    /\ LET cur == CurrentVersion(LocalVersion, GlobalVersion)
       IN  current' = [called |-> TRUE, version |-> cur.version, err |-> cur.err]
    /\ UNCHANGED <<cwd, localCfg, globalSel, listed, shim>>
    /\ UNCHANGED notSelectionVars

\* Shim step 2: the selection is read once, for the whole invocation.
ShimInvoke ==
    /\ shim.pc = "idle"
    /\ LET cur == CurrentVersion(LocalVersion, GlobalVersion)
       IN  shim' = [pc |-> "resolved", local |-> LocalVersion,
                    global |-> GlobalVersion, version |-> cur.version,
                    err |-> cur.err, started |-> "none"]
    /\ UNCHANGED <<cwd, localCfg, globalSel, listed, current>>
    /\ UNCHANGED notSelectionVars

\* Shim steps 3 and 4.
ShimCheck ==
    /\ shim.pc = "resolved"
    /\ LET r == ShimResolve([version |-> shim.version, err |-> shim.err])
       IN  shim' = [shim EXCEPT !.pc = r.pc, !.err = r.err, !.version = r.target]
    /\ UNCHANGED <<cwd, localCfg, globalSel, listed, current>>
    /\ UNCHANGED notSelectionVars

\* Shim step 5: the process image is replaced by the real executable.
ShimExec ==
    /\ shim.pc = "ready"
    /\ shim' = [shim EXCEPT !.pc = "running", !.started = shim.version]
    /\ UNCHANGED <<cwd, localCfg, globalSel, listed, current>>
    /\ UNCHANGED notSelectionVars

\* The invocation ends, by the failure or by the real executable's exit.
ShimExit ==
    /\ shim.pc \in {"failed", "running"}
    /\ shim' = ShimIdle
    /\ UNCHANGED <<cwd, localCfg, globalSel, listed, current>>
    /\ UNCHANGED notSelectionVars

SelectionNext ==
    \/ \E d \in Dirs : Chdir(d)
    \/ \E v \in SelectableVersions \cup {Unset} : SetGlobalVersion(v)
    \/ \E v \in SelectableVersions \cup {Unset} : SetLocalVersion(v)
    \/ ListSingleRuntime
    \/ CallCurrentVersion
    \/ ShimInvoke
    \/ ShimCheck
    \/ ShimExec
    \/ ShimExit

(***************************************************************************)
(* The claims on selection and the shim.                                   *)
(***************************************************************************)

\* The directories from the working directory up that hold a local version.
LocalAncestors == {d \in 0..cwd : localCfg[d] # Unset}

\* The selection in force: the local version of the nearest such directory,
\* and the global version only when there is none.
ActiveSelection ==
    IF LocalAncestors # {}
    THEN localCfg[CHOOSE d \in LocalAncestors : \A e \in LocalAncestors : e <= d]
    ELSE globalSel

\* C11: CurrentVersion returns the local version whenever one is set in the
\* working directory or an ancestor, and the global one only when none is;
\* the list command marks an installed version active exactly when it is
\* that version.
LocalOverridesGlobal ==
    /\ current # NoCurrent =>
          /\ current.version = ActiveSelection
          /\ LocalAncestors # {} => current.version # Unset
    /\ listed # NoList =>
          \A v \in InstalledVersions :
              listed.lines[v].isActive <=> v = ActiveSelection

\* C11's case: global A, local B set two levels above the working
\* directory; CurrentVersion was called and the list printed.
LocalTwoLevelsUpListed ==
    /\ cwd >= 2
    /\ globalSel = "A"
    /\ localCfg[cwd - 2] = "B"
    /\ \A d \in (cwd - 1)..cwd : localCfg[d] = Unset
    /\ current # NoCurrent
    /\ listed # NoList
    /\ listed.lines["B"].isActive
    /\ ~listed.lines["A"].isActive

\* C12: a shim invoked with neither a local nor a global version selected
\* fails with NoActiveVersion; it is never ready to start, and has never
\* started, a real or a system binary.
NoSelectionNoExec ==
    (shim.pc # "idle" /\ shim.local = Unset /\ shim.global = Unset) =>
        /\ shim.pc \in {"resolved", "failed"}
        /\ shim.started = "none"
        /\ shim.pc = "failed" => shim.err = "NoActiveVersion"

\* C12's case: the shim was invoked without a selection and has failed,
\* while a global version was set after it read the selection.
ShimFailedWithoutSelection ==
    /\ shim.pc = "failed"
    /\ shim.local = Unset
    /\ shim.global = Unset
    /\ shim.err = "NoActiveVersion"
    /\ globalSel \in InstalledVersions

(***************************************************************************)
(* Part 6: httpGetWithRetry of the mirror scripts and the fetches that     *)
(* call it with maxRetries = 3 (PythonStandaloneSource.FetchVersions,      *)
(* fetchRubyInstallerVersions, fetchRubyBuilderVersions).  A response is   *)
(* a transport error or a status code; the body of a 200 either decodes    *)
(* or does not.                                                            *)
(***************************************************************************)

MaxRetriesBound == 3

CallerRetries == 3

Statuses == {200, 404, 429, 500, 503}

TransportError == [err |-> TRUE, status |-> 0]

\* A nil *http.Response: what Get hands back along with an error, and what
\* httpGetWithRetry returns when it leaves the loop.
NilResponse == TransportError

\* The values of maxRetries a call may be given.
RetryCounts == -1..MaxRetriesBound

Responses == {TransportError} \cup {[err |-> FALSE, status |-> s] : s \in Statuses}

Callers == {"FetchVersions", "fetchRubyInstallerVersions", "fetchRubyBuilderVersions"}

NoReturn == [resp |-> NilResponse, err |-> "unset"]
NoFetchResult == [err |-> "unset"]

\* A faulty variant of RetryableStatus: every status but 200 is retried.
RetryableStatusNot200(status) == status # 200

\* resp.StatusCode >= 500
RetryableStatus(status) == status >= 500

\* time.Duration(attempt) * 2 * time.Second, in seconds
Backoff(attemptNo) == attemptNo * 2

\* fmt.Errorf("HTTP %d", resp.StatusCode), or the transport's error
ErrorOf(r) == IF r.err THEN "transport" ELSE "HTTP 5xx"

\* A faulty variant of StatusAccepted: the caller does not look at the status.
StatusAcceptedAlways(status) == TRUE

\* The callers' check: resp.StatusCode != 200 is an error.
StatusAccepted(status) == status = 200

HttpIdle ==
    /\ hpc = "idle"
    /\ caller = "none"
    /\ maxRetries = 0
    /\ attempt = 0
    /\ lastErr = "nil"
    /\ requests = <<>>
    /\ sleeps = <<>>
    /\ hret = NoReturn
    /\ fetched = NoFetchResult

HttpInit == HttpIdle

\* httpGetWithRetry(url, m) is entered: attempt := 1.
HttpEnter(c, m) ==
    /\ hpc' = "loop"
    /\ caller' = c
    /\ maxRetries' = m
    /\ attempt' = 1
    /\ lastErr' = "nil"
    /\ requests' = <<>>
    /\ sleeps' = <<>>
    /\ hret' = NoReturn
    /\ fetched' = NoFetchResult

\* httpGetWithRetry called on its own, with any maxRetries.
CallHttpGetWithRetry(m) ==
    /\ hpc \in {"idle", "done"} \/ (hpc = "returned" /\ caller = "none")
    /\ HttpEnter("none", m)
    /\ UNCHANGED notHttpVars

\* One of the fetches calls httpGetWithRetry(url, 3).
CallFetch(c) ==
    /\ hpc \in {"idle", "done"} \/ (hpc = "returned" /\ caller = "none")
    /\ HttpEnter(c, CallerRetries)
    /\ UNCHANGED notHttpVars

\* httpClient.Get(url) answers r, inside the loop.
HttpGet(r) ==
    /\ hpc = "loop"
    /\ attempt <= maxRetries
    /\ requests' = Append(requests, r)
    /\ IF r.err \/ RetryableStatus(r.status)
       THEN /\ lastErr' = ErrorOf(r)
            /\ IF attempt < maxRetries
               THEN hpc' = "sleep" /\ attempt' = attempt
               ELSE hpc' = "loop" /\ attempt' = attempt + 1
            /\ hret' = hret
       ELSE /\ hret' = [resp |-> r, err |-> "nil"]
            /\ hpc' = "returned"
            /\ UNCHANGED <<lastErr, attempt>>
    /\ UNCHANGED <<caller, maxRetries, sleeps, fetched>>
    /\ UNCHANGED notHttpVars

\* time.Sleep, then continue: attempt++.
HttpSleep ==
    /\ hpc = "sleep"
    /\ sleeps' = Append(sleeps, Backoff(attempt))
    /\ attempt' = attempt + 1
    /\ hpc' = "loop"
    /\ UNCHANGED <<caller, maxRetries, lastErr, requests, hret, fetched>>
    /\ UNCHANGED notHttpVars

\* The loop is left: return nil, lastErr.
HttpExhausted ==
    /\ hpc = "loop"
    /\ attempt > maxRetries
    /\ hret' = [resp |-> NilResponse, err |-> lastErr]
    /\ hpc' = "returned"
    /\ UNCHANGED <<caller, maxRetries, attempt, lastErr, requests, sleeps, fetched>>
    /\ UNCHANGED notHttpVars

\* The fetch after httpGetWithRetry returned: an error of the call, a
\* status other than 200 and a body that does not decode are errors.
FetchReturn(decodes) ==
    /\ hpc = "returned"
    /\ caller \in Callers
    /\ fetched' =
          IF hret.err # "nil" THEN [err |-> "fetching"]
          ELSE IF ~StatusAccepted(hret.resp.status) THEN [err |-> "HTTP status"]
          ELSE IF ~decodes THEN [err |-> "parsing"]
          ELSE [err |-> "nil"]
    /\ hpc' = "done"
    /\ UNCHANGED <<caller, maxRetries, attempt, lastErr, requests, sleeps, hret>>
    /\ UNCHANGED notHttpVars

HttpNext ==
    \/ \E m \in RetryCounts : CallHttpGetWithRetry(m)
    \/ \E c \in Callers : CallFetch(c)
    \/ \E r \in Responses : HttpGet(r)
    \/ HttpSleep
    \/ HttpExhausted
    \/ \E decodes \in BOOLEAN : FetchReturn(decodes)

(***************************************************************************)
(* The claims on httpGetWithRetry.                                         *)
(***************************************************************************)

\* A transient failure: a transport error or a status of 500 and above.
Transient(r) == r.err \/ r.status >= 500

NonRetryable(r) == ~r.err /\ r.status < 500 /\ r.status # 200

HttpInCall == hpc \in {"loop", "sleep"}
HttpReturned == hpc \in {"returned", "done"}

\* The requests and the sleeps of a call are as the retry rule prescribes.
RetryDiscipline ==
    /\ Len(requests) <= maxRetries \/ requests = <<>>
    /\ \A i \in 1..(Len(requests) - 1) : Transient(requests[i])
    /\ \A k \in 1..Len(sleeps) : sleeps[k] = 2 * k
    /\ Len(sleeps) <= Len(requests)
    /\ Len(sleeps) < maxRetries \/ (maxRetries <= 0 /\ sleeps = <<>>)
    /\ hpc = "loop" => Len(sleeps) = Len(requests) \/ Len(requests) = maxRetries
    /\ HttpReturned =>
          /\ Len(sleeps) = IF Len(requests) = 0 THEN 0 ELSE Len(requests) - 1
          /\ hret.err = "nil" /\ Len(requests) > 0 =>
                /\ ~Transient(requests[Len(requests)])
                /\ hret.resp = requests[Len(requests)]
          /\ hret.err # "nil" =>
                /\ Len(requests) = maxRetries
                /\ Transient(requests[maxRetries])
                /\ hret.err = ErrorOf(requests[maxRetries])

\* C13: httpGetWithRetry makes another request only after a transient
\* failure, makes at most maxRetries requests, sleeps 2*k seconds after
\* failed attempt k and only when another attempt follows, returns the
\* last error after the last failed attempt, and every call returns.
RetryIsBoundedLinearBackoff ==
    /\ []RetryDiscipline
    /\ HttpInCall ~> HttpReturned

\* C13's case: three transient failures, two sleeps, the last error returned.
RetriedToExhaustion ==
    /\ hpc = "returned"
    /\ maxRetries = 3
    /\ Len(requests) = 3
    /\ requests[1].err
    /\ ~requests[3].err
    /\ sleeps = <<2, 4>>
    /\ hret.err = "HTTP 5xx"

\* C14: when the first response is a status below 500 other than 200,
\* the call makes that one request and no sleep, and the calling fetch
\* returns an error.
NonRetryableFailsAtOnce ==
    (Len(requests) >= 1 /\ NonRetryable(requests[1])) =>
        /\ Len(requests) = 1
        /\ sleeps = <<>>
        /\ HttpReturned
        /\ hret.err = "nil"
        /\ hpc = "done" => fetched.err \notin {"nil", "unset"}

\* C14's case: a fetch got a 404 first and has returned.
FetchGotNotFound ==
    /\ hpc = "done"
    /\ caller \in Callers
    /\ requests = <<[err |-> FALSE, status |-> 404]>>
    /\ fetched.err = "HTTP status"

\* C28: whatever maxRetries is, zero and negative values included, a
\* call of httpGetWithRetry that has returned has returned a response
\* that is not nil or an error that is not nil, never nil for both.
ReturnsResponseOrError ==
    (hpc = "returned" /\ caller = "none") =>
        hret.resp # NilResponse \/ hret.err # "nil"

\* With maxRetries of one and above the call returns a response or an
\* error, and the fetches, which pass 3, read no nil response.
ReturnsResponseOrErrorWhenPositive ==
    (HttpReturned /\ maxRetries >= 1) =>
        hret.resp # NilResponse \/ hret.err # "nil"

(***************************************************************************)
(* Part 8: AddToPath on Windows (package path).  A PATH value of the       *)
(* registry is its sequence of ";"-separated entries (an empty value has   *)
(* none), or is absent.  Entries are drawn from a pool with case and       *)
(* white-space variants of the shims directory.  The registry can be       *)
(* opened, read and written.                                               *)
(***************************************************************************)

MaxPathLen == 3

\* path.ShimsDir(), as the user may have it spelled.
ShimsDirs == {"S", "s"}

\* The entries of a PATH value: the empty entry, the shims directory as
\* written and in the other case with white space around it, and two
\* other directories, one of them with white space around it.
PathEntries == {"", "S", " s ", "X", " Y "}

\* strings.TrimSpace on the entries.
TrimSpace(e) == IF e = " s " THEN "s" ELSE IF e = " Y " THEN "Y" ELSE e

\* strings.EqualFold on the trimmed entries.
ToFold(e) == IF e = "S" THEN "s" ELSE IF e = "B" THEN "b" ELSE e
EqualFold(a, b) == ToFold(a) = ToFold(b)

\* The PATH values of the registry: a single empty entry is the empty value.
PathValues ==
    {[exists |-> FALSE, entries |-> <<>>]} \cup
    {[exists |-> TRUE, entries |-> p] :
        p \in UNION {[1..n -> PathEntries] : n \in 0..MaxPathLen} \ {<<"">>}}

\* key.GetStringValue("Path"): ErrNotExist leaves currentPath empty.
CurrentPath(reg) == IF reg.exists THEN reg.entries ELSE <<>>

\* strings.Split(currentPath, ";"): the empty string splits into one empty entry.
SplitPath(currentPath) == IF currentPath = <<>> THEN <<"">> ELSE currentPath

\* The loop over paths: the index of the first entry that is the shims
\* directory, -1 if there is none.
FoundAt(paths, shimsDir) ==
    LET hits == {i \in 1..Len(paths) : EqualFold(TrimSpace(paths[i]), shimsDir)}
    IN  IF hits = {} THEN -1
        ELSE (CHOOSE i \in hits : \A j \in hits : i <= j) - 1

\* A faulty variant of checkSystemPath: an update is asked for in any case.
checkSystemPathAlways(reg, shimsDir) ==
    LET foundAt == FoundAt(SplitPath(CurrentPath(reg)), shimsDir)
    IN  IF foundAt > 0 THEN [needsUpdate |-> TRUE, action |-> "move"]
        ELSE [needsUpdate |-> TRUE, action |-> "add"]

checkSystemPath(reg, shimsDir) ==
    LET foundAt == FoundAt(SplitPath(CurrentPath(reg)), shimsDir)
    IN  IF foundAt = 0 THEN [needsUpdate |-> FALSE, action |-> ""]
        ELSE IF foundAt > 0 THEN [needsUpdate |-> TRUE, action |-> "move"]
        ELSE [needsUpdate |-> TRUE, action |-> "add"]

checkUserPath(reg, shimsDir) ==
    IF ~reg.exists \/ CurrentPath(reg) = <<>>
    THEN [needsUpdate |-> TRUE, action |-> "add"]
    ELSE LET foundAt == FoundAt(SplitPath(CurrentPath(reg)), shimsDir)
         IN  IF foundAt = 0 THEN [needsUpdate |-> FALSE, action |-> ""]
             ELSE IF foundAt > 0 THEN [needsUpdate |-> TRUE, action |-> "move"]
             ELSE [needsUpdate |-> TRUE, action |-> "add"]

\* A faulty variant of the filter loop: the entries kept are appended as
\* they stand, not trimmed.
RECURSIVE FilterPathsUntrimmed(_, _)
FilterPathsUntrimmed(paths, shimsDir) ==
    IF paths = <<>> THEN <<>>
    ELSE LET trimmed == TrimSpace(Head(paths))
             rest == FilterPathsUntrimmed(Tail(paths), shimsDir)
         IN  IF trimmed = "" THEN rest
             ELSE IF EqualFold(trimmed, shimsDir) THEN rest
             ELSE <<Head(paths)>> \o rest

\* The filter loop of modifySystemPath and modifyUserPath: empty entries
\* and the shims directory are dropped, the others are kept trimmed.
RECURSIVE FilterPaths(_, _)
FilterPaths(paths, shimsDir) ==
    IF paths = <<>> THEN <<>>
    ELSE LET trimmed == TrimSpace(Head(paths))
             rest == FilterPaths(Tail(paths), shimsDir)
         IN  IF trimmed = "" THEN rest
             ELSE IF EqualFold(trimmed, shimsDir) THEN rest
             ELSE <<trimmed>> \o rest

\* modifySystemPath: the value written back.
modifySystemPath(reg, shimsDir) ==
    [exists |-> TRUE,
     entries |-> <<shimsDir>> \o FilterPaths(SplitPath(CurrentPath(reg)), shimsDir)]

\* modifyUserPath: the value written back.
modifyUserPath(reg, shimsDir) ==
    LET filteredPaths ==
            IF CurrentPath(reg) # <<>>
            THEN FilterPaths(SplitPath(CurrentPath(reg)), shimsDir)
            ELSE <<>>
    IN  [exists |-> TRUE, entries |-> <<shimsDir>> \o filteredPaths]

\* The directories that hold node.exe, python.exe or ruby.exe.
HasRuntimeExe(dir) == dir = "X"

\* detectSystemRuntimeConflicts: whether a conflict was found.
detectSystemRuntimeConflicts(reg, shimsDir) ==
    /\ reg.exists
    /\ \E i \in 1..Len(SplitPath(reg.entries)) :
          LET dir == TrimSpace(SplitPath(reg.entries)[i])
          IN  dir # "" /\ ~EqualFold(dir, shimsDir) /\ HasRuntimeExe(dir)

\* The answers typed at a prompt, trimmed and lowered.
PromptAnswers == {"", "y", "n"}

(***************************************************************************)
(* Part 9: the settings file (package config) and determineInstallType of  *)
(* the init command.  A JSON document is its kind and, for an object, its  *)
(* members in order; encoding/json matches a member's key to the field's   *)
(* tag without regard to letter case, leaves the field alone on null, and  *)
(* reports a value of another type as an error.                            *)
(***************************************************************************)

InstallTypeSystem == "system"
InstallTypeUser == "user"

Member(key, vkind, value) == [key |-> key, vkind |-> vkind, value |-> value]

Object(fields) == [kind |-> "object", members |-> fields]

\* The documents a settings file may hold.
Documents ==
    { Object(<<Member("installType", "string", "system")>>),
      Object(<<Member("installType", "string", "user")>>),
      Object(<<Member("installType", "string", "invalid")>>),
      Object(<<Member("installType", "string", "User")>>),
      Object(<<Member("InstallType", "string", "user")>>),
      Object(<<Member("installType", "number", "5")>>),
      Object(<<Member("installType", "null", "")>>),
      Object(<<Member("installType", "string", "user"),
               Member("installType", "string", "system")>>),
      Object(<<Member("other", "string", "user")>>),
      Object(<<>>),
      [kind |-> "null", members |-> <<>>],
      [kind |-> "array", members |-> <<>>],
      [kind |-> "garbage", members |-> <<>>],
      [kind |-> "empty", members |-> <<>>] }

\* Letter case folded, for the keys in use.
FoldKey(key) == IF key = "InstallType" THEN "installtype"
                ELSE IF key = "installType" THEN "installtype"
                ELSE key

\* The decoder over an object's members: the field after them, and
\* whether a member had a value of the wrong type.
RECURSIVE DecodeMembers(_, _)
DecodeMembers(fields, acc) ==
    IF fields = <<>> THEN acc
    ELSE LET m == Head(fields)
             next ==
                 IF FoldKey(m.key) # "installtype" THEN acc
                 ELSE IF m.vkind = "string" THEN [acc EXCEPT !.installType = m.value]
                 ELSE IF m.vkind = "null" THEN acc
                 ELSE [acc EXCEPT !.err = "type"]
         IN  DecodeMembers(Tail(fields), next)

\* json.Unmarshal(data, &settings), settings being the zero value.
Unmarshal(doc) ==
    CASE doc.kind \in {"garbage", "empty"} -> [installType |-> "", err |-> "syntax"]
      [] doc.kind = "array" -> [installType |-> "", err |-> "type"]
      [] doc.kind = "null" -> [installType |-> "", err |-> "nil"]
      [] OTHER -> DecodeMembers(doc.members, [installType |-> "", err |-> "nil"])

\* A faulty variant of MarshalIndent: the member is written under another key.
MarshalIndentOtherKey(installType) ==
    Object(<<Member("other", "string", installType)>>)

\* json.MarshalIndent(settings, "", "  ")
MarshalIndent(installType) ==
    Object(<<Member("installType", "string", installType)>>)

\* The file system at the settings path: the config directory is missing,
\* a directory, or a plain file; the settings file is missing, a
\* directory, or a file with a document.
NoFile == [state |-> "missing", doc |-> [kind |-> "empty", members |-> <<>>]]
DirAtFile == [state |-> "dir", doc |-> [kind |-> "empty", members |-> <<>>]]
FileWith(doc) == [state |-> "file", doc |-> doc]

\* os.ReadFile(settingsPath)
ReadFile(dir, file) ==
    IF dir = "missing" THEN [err |-> "ErrNotExist", data |-> NoFile.doc]
    ELSE IF dir = "file" THEN [err |-> "ENOTDIR", data |-> NoFile.doc]
    ELSE IF file.state = "missing" THEN [err |-> "ErrNotExist", data |-> NoFile.doc]
    ELSE IF file.state = "dir" THEN [err |-> "EISDIR", data |-> NoFile.doc]
    ELSE [err |-> "nil", data |-> file.doc]

NilSettings == [isNil |-> TRUE, installType |-> ""]
SettingsOf(t) == [isNil |-> FALSE, installType |-> t]

\* A faulty variant of LoadSettings: the install type is not validated.
LoadSettingsUnvalidated(dir, file) ==
    LET r == ReadFile(dir, file)
    IN  IF r.err # "nil"
        THEN IF r.err = "ErrNotExist"
             THEN [settings |-> SettingsOf(InstallTypeSystem), err |-> "nil"]
             ELSE [settings |-> NilSettings, err |-> r.err]
        ELSE LET u == Unmarshal(r.data)
             IN  IF u.err # "nil" THEN [settings |-> NilSettings, err |-> u.err]
                 ELSE [settings |-> SettingsOf(u.installType), err |-> "nil"]

\* LoadSettings
LoadSettings(dir, file) ==
    LET r == ReadFile(dir, file)
    IN  IF r.err # "nil"
        THEN IF r.err = "ErrNotExist"
             THEN [settings |-> SettingsOf(InstallTypeSystem), err |-> "nil"]
             ELSE [settings |-> NilSettings, err |-> r.err]
        ELSE LET u == Unmarshal(r.data)
             IN  IF u.err # "nil" THEN [settings |-> NilSettings, err |-> u.err]
                 ELSE IF u.installType # InstallTypeSystem /\ u.installType # InstallTypeUser
                 THEN [settings |-> SettingsOf(InstallTypeSystem), err |-> "nil"]
                 ELSE [settings |-> SettingsOf(u.installType), err |-> "nil"]

\* A faulty variant of IsUserInstall: a load error counts as a user install.
IsUserInstallOnError(dir, file) ==
    LET l == LoadSettings(dir, file)
    IN  IF l.err # "nil" THEN TRUE
        ELSE l.settings.installType = InstallTypeUser

\* IsUserInstall
IsUserInstall(dir, file) ==
    LET l == LoadSettings(dir, file)
    IN  IF l.err # "nil" THEN FALSE
        ELSE l.settings.installType = InstallTypeUser

\* SaveSettings: MkdirAll, MarshalIndent, WriteFile.
SaveSettings(dir, file, installType) ==
    IF dir = "file"
    THEN [err |-> "ENOTDIR", dir |-> dir, file |-> file]
    ELSE IF dir = "dir" /\ file.state = "dir"
    THEN [err |-> "EISDIR", dir |-> "dir", file |-> file]
    ELSE [err |-> "nil", dir |-> "dir",
          file |-> FileWith(MarshalIndent(installType))]

\* A faulty variant of determineInstallType: the saved settings come first.
determineInstallTypeSettingsFirst(changed, flagUser, dir, file) ==
    LET l == LoadSettings(dir, file)
    IN  IF l.err = "nil" /\ l.settings.installType = InstallTypeUser THEN TRUE
        ELSE IF changed THEN flagUser
        ELSE FALSE

\* determineInstallType: cmd.Flags().Changed("user"), initUser, the settings.
determineInstallType(changed, flagUser, dir, file) ==
    IF changed THEN flagUser
    ELSE LET l == LoadSettings(dir, file)
         IN  IF l.err = "nil" /\ l.settings.installType = InstallTypeUser THEN TRUE
             ELSE FALSE

NoLoad == [called |-> FALSE]
NoIsUser == [called |-> FALSE]
NoSave == [called |-> FALSE]
NoDetermine == [called |-> FALSE]

SettingsIdle ==
    /\ configDir = "missing"
    /\ settingsFile = NoFile
    /\ loaded = NoLoad
    /\ isUser = NoIsUser
    /\ saved = NoSave
    /\ determined = NoDetermine

SettingsInit ==
    /\ configDir \in {"missing", "dir", "file"}
    /\ settingsFile = NoFile
    /\ loaded = NoLoad
    /\ isUser = NoIsUser
    /\ saved = NoSave
    /\ determined = NoDetermine

\* The settings file is written by hand, or by another version of the tool.
EditSettingsFile(doc) ==
    /\ configDir = "dir"
    /\ settingsFile # FileWith(doc)
    /\ settingsFile' = FileWith(doc)
    /\ loaded' = NoLoad
    /\ isUser' = NoIsUser
    /\ saved' = NoSave
    /\ determined' = NoDetermine
    /\ UNCHANGED configDir
    /\ UNCHANGED notSettingsVars

\* The settings path is taken by a directory, or the file is deleted.
ReplaceSettingsFile(f) ==
    /\ configDir = "dir"
    /\ settingsFile # f
    /\ settingsFile' = f
    /\ loaded' = NoLoad
    /\ isUser' = NoIsUser
    /\ saved' = NoSave
    /\ determined' = NoDetermine
    /\ UNCHANGED configDir
    /\ UNCHANGED notSettingsVars

CallLoadSettings ==
    /\ loaded = NoLoad
    /\ LET l == LoadSettings(configDir, settingsFile)
       IN  loaded' = [called |-> TRUE, settings |-> l.settings, err |-> l.err]
    /\ UNCHANGED <<configDir, settingsFile, isUser, saved, determined>>
    /\ UNCHANGED notSettingsVars

CallIsUserInstall ==
    /\ isUser = NoIsUser
    /\ isUser' = [called |-> TRUE, value |-> IsUserInstall(configDir, settingsFile)]
    /\ UNCHANGED <<configDir, settingsFile, loaded, saved, determined>>
    /\ UNCHANGED notSettingsVars

\* SaveSettings(&Settings{InstallType: t}); what was read before is stale.
CallSaveSettings(t) ==
    /\ LET s == SaveSettings(configDir, settingsFile, t)
       IN  /\ configDir' = s.dir
           /\ settingsFile' = s.file
           /\ saved' = IF s.err = "nil"
                       THEN [called |-> TRUE, ok |-> TRUE, installType |-> t,
                             createdDir |-> configDir = "missing" \/
                                 (saved # NoSave /\ saved.createdDir),
                             count |-> IF saved # NoSave /\ saved.ok
                                       THEN 2 ELSE 1]
                       ELSE [called |-> TRUE, ok |-> FALSE, installType |-> t,
                             createdDir |-> FALSE, count |-> 0]
    /\ loaded' = NoLoad
    /\ isUser' = NoIsUser
    /\ determined' = NoDetermine
    /\ UNCHANGED notSettingsVars

CallDetermineInstallType(changed, flagUser) ==
    /\ determined' = [called |-> TRUE, changed |-> changed, flagUser |-> flagUser,
                      userInstall |-> determineInstallType(changed, flagUser,
                                                           configDir, settingsFile)]
    /\ UNCHANGED <<configDir, settingsFile, loaded, isUser, saved>>
    /\ UNCHANGED notSettingsVars

SettingsNext ==
    \/ \E doc \in Documents : EditSettingsFile(doc)
    \/ \E f \in {NoFile, DirAtFile} : ReplaceSettingsFile(f)
    \/ CallLoadSettings
    \/ CallIsUserInstall
    \/ \E t \in {InstallTypeSystem, InstallTypeUser, "invalid"} : CallSaveSettings(t)
    \/ \E changed \in BOOLEAN, flagUser \in BOOLEAN :
          CallDetermineInstallType(changed, flagUser)

(***************************************************************************)
(* The claims on the settings.                                             *)
(***************************************************************************)

\* The settings file can be read.
SettingsReadable == configDir = "dir" /\ settingsFile.state = "file"

\* No settings file: the directory or the file is missing.
SettingsMissing ==
    configDir = "missing" \/ (configDir = "dir" /\ settingsFile.state = "missing")

\* The members of a document that spell the installType field.
TypeMembers(doc) ==
    {i \in 1..Len(doc.members) :
        doc.members[i].key \in {"installType", "InstallType"}}

\* The document is JSON that fits the Settings structure.
WellFormed(doc) ==
    /\ doc.kind \in {"object", "null"}
    /\ \A i \in TypeMembers(doc) : doc.members[i].vkind \in {"string", "null"}

\* The install type a well-formed document stores: the last string given
\* for the field, "" if there is none.
StoredType(doc) ==
    LET given == {i \in TypeMembers(doc) : doc.members[i].vkind = "string"}
    IN  IF given = {} THEN ""
        ELSE doc.members[CHOOSE i \in given : \A j \in given : j <= i].value

\* The settings on disk load, and as a user install.
StoredAsUser ==
    /\ SettingsReadable
    /\ WellFormed(settingsFile.doc)
    /\ StoredType(settingsFile.doc) = "user"

\* C17: a LoadSettings that succeeds returns the type system or user; it
\* returns system without error when there is no settings file, and
\* system in place of any other stored value.
LoadedTypeIsValid ==
    loaded # NoLoad =>
        /\ loaded.err = "nil" =>
              /\ ~loaded.settings.isNil
              /\ loaded.settings.installType \in {"system", "user"}
        /\ SettingsMissing =>
              /\ loaded.err = "nil"
              /\ loaded.settings.installType = "system"
        /\ (SettingsReadable /\ WellFormed(settingsFile.doc)) =>
              /\ loaded.err = "nil"
              /\ loaded.settings.installType =
                    IF StoredType(settingsFile.doc) \in {"system", "user"}
                    THEN StoredType(settingsFile.doc) ELSE "system"

\* C17's case: the file stores an install type that is neither, and was
\* loaded.
LoadedUnrecognisedType ==
    /\ loaded # NoLoad
    /\ SettingsReadable
    /\ settingsFile.doc.kind = "object"
    /\ StoredType(settingsFile.doc) = "invalid"

\* C18: LoadSettings fails, with no settings, on a file of malformed
\* JSON; IsUserInstall is true exactly when the settings on disk load as
\* a user install, and so agrees with LoadSettings.
MalformedFailsUserInstallFollows ==
    /\ (loaded # NoLoad /\ SettingsReadable
            /\ settingsFile.doc.kind \in {"garbage", "empty"}) =>
          /\ loaded.err # "nil"
          /\ loaded.settings.isNil
    /\ isUser # NoIsUser =>
          /\ isUser.value <=> StoredAsUser
          /\ loaded # NoLoad =>
                (isUser.value <=>
                    (loaded.err = "nil" /\ loaded.settings.installType = "user"))

\* C18's case: malformed JSON on disk; both functions were called.
MalformedLoadedAndAsked ==
    /\ SettingsReadable
    /\ settingsFile.doc.kind = "garbage"
    /\ loaded # NoLoad
    /\ isUser # NoIsUser

\* C19: after a successful SaveSettings the config directory exists, and
\* LoadSettings returns the install type of the latest save, for system
\* and for user.
SaveLoadRoundTrip ==
    (saved # NoSave /\ saved.ok) =>
        /\ configDir = "dir"
        /\ settingsFile.state = "file"
        /\ (loaded # NoLoad /\ saved.installType \in {"system", "user"}) =>
              /\ loaded.err = "nil"
              /\ loaded.settings.installType = saved.installType

\* C19's case: a first save created the config directory, a second save
\* of the type user followed, and the settings were loaded.
SavedTwiceAndLoaded ==
    /\ saved # NoSave
    /\ saved.ok
    /\ saved.count = 2
    /\ saved.createdDir
    /\ saved.installType = "user"
    /\ loaded # NoLoad

\* C20: determineInstallType returns the flag's value when --user was
\* given, and otherwise whether the settings on disk load as a user
\* install.
InstallTypePriority ==
    determined # NoDetermine =>
        determined.userInstall =
            IF determined.changed THEN determined.flagUser ELSE StoredAsUser

\* C20's case: the settings say user, --user=false was given, and the
\* result is system-level.
FlagOverridesSettings ==
    /\ determined # NoDetermine
    /\ determined.changed
    /\ ~determined.flagUser
    /\ StoredAsUser
    /\ ~determined.userInstall

(***************************************************************************)
(* Part 10: computeGaps of scripts/detect-ruby-gaps.  The versions are     *)
(* the unique versions fetchKnownVersions returns, in the order of         *)
(* sort.Strings, written from their numbers; existingMeta is the set of keys fetchExistingMeta maps to      *)
(* true.                                                                   *)
(***************************************************************************)

MaxGapVersions == 2
MaxMeta == 2

\* The Ruby versions upstream may list.
GapVersionPool ==
    { Ver(FALSE, <<2, 7, 8>>, NoPre),
      Ver(FALSE, <<3, 0, 6>>, NoPre),
      Ver(FALSE, <<3, 1, 0>>, NoPre),
      Ver(FALSE, <<4, 0, 0>>, NoPre) }

GapVersionRec(s) == CHOOSE c \in GapVersionPool : Render(c) = s

Platform(name, runner, buildOS, arch) ==
    [Name |-> name, Runner |-> runner, BuildOS |-> buildOS, Arch |-> arch]

allPlatforms ==
    << Platform("linux-amd64", "ubuntu-latest", "linux", "amd64"),
       Platform("linux-arm64", "ubuntu-24.04-arm", "linux", "arm64"),
       Platform("darwin-amd64", "macos-13", "darwin", "amd64"),
       Platform("darwin-arm64", "macos-latest", "darwin", "arm64"),
       Platform("windows-amd64", "windows-latest", "windows", "amd64"),
       Platform("windows-386", "windows-latest", "windows", "386") >>

\* strings.SplitN(s, sep, n) for a one-character separator and n >= 1.
RECURSIVE SplitN(_, _, _)
SplitN(s, sep, n) ==
    IF n = 1 \/ (\A i \in DOMAIN s : s[i] # sep) THEN <<s>>
    ELSE LET k == CHOOSE i \in DOMAIN s :
                      s[i] = sep /\ \A j \in 1..(i - 1) : s[j] # sep
         IN  <<SubSeq(s, 1, k - 1)>> \o SplitN(SubSeq(s, k + 1, Len(s)), sep, n - 1)

\* fmt.Sscanf(s, "%d", &x) on x = 0: an optional sign and the digits that
\* follow it are read; with no digit there x stays 0.
SscanfInt(s) ==
    LET signed == Len(s) >= 1 /\ s[1] \in {"+", "-"}
        body == IF signed THEN Tail(s) ELSE s
        stops == {i \in DOMAIN body : ~IsDigit(body[i])}
        k == IF stops = {} THEN Len(body)
             ELSE (CHOOSE i \in stops : \A j \in stops : i <= j) - 1
        val == DigitsValue(SubSeq(body, 1, k))
    IN  IF k = 0 THEN 0
        ELSE IF signed /\ s[1] = "-" THEN 0 - val ELSE val

\* A faulty variant of supportsARM64Darwin: the minor number is not read.
supportsARM64DarwinMajorOnly(version) ==
    LET parts == SplitN(version, ".", 3)
    IN  IF Len(parts) < 2 THEN FALSE
        ELSE SscanfInt(parts[1]) >= 3

supportsARM64Darwin(version) ==
    LET parts == SplitN(version, ".", 3)
    IN  IF Len(parts) < 2 THEN FALSE
        ELSE LET major == SscanfInt(parts[1])
                 minor == SscanfInt(parts[2])
             IN  IF major > 3 THEN TRUE
                 ELSE IF major = 3 /\ minor >= 1 THEN TRUE
                 ELSE FALSE

\* fmt.Sprintf("ruby/%s/%s.meta.json", version, name): the text, with the
\* version spelled out.
MetaKey(version, name) == <<"ruby/">> \o version \o <<"/", name, ".meta.json">>

\* The inner loop of computeGaps: the entries of one version, over the
\* platforms from the i-th on.
RECURSIVE VersionGaps(_, _, _)
VersionGaps(version, meta, i) ==
    IF i > Len(allPlatforms) THEN <<>>
    ELSE LET p == allPlatforms[i]
             rest == VersionGaps(version, meta, i + 1)
         IN  IF p.Name = "darwin-arm64" /\ ~supportsARM64Darwin(version)
             THEN rest
             ELSE IF MetaKey(version, p.Name) \notin meta
             THEN <<[Version |-> version, Platform |-> p.Name,
                     Runner |-> p.Runner, BuildOS |-> p.BuildOS,
                     Arch |-> p.Arch]>> \o rest
             ELSE rest

\* computeGaps(versions, existingMeta): matrix.Include.
RECURSIVE computeGaps(_, _)
computeGaps(versions, meta) ==
    IF versions = <<>> THEN <<>>
    ELSE VersionGaps(Head(versions), meta, 1) \o computeGaps(Tail(versions), meta)

\* The byte of a character of a version text.
CharCode(c) == IF c = "." THEN 46 ELSE 48 + DigitVal(c)

\* a < b for Go strings: the order of sort.Strings.
StringLess(a, b) ==
    \/ Len(a) < Len(b) /\ SubSeq(b, 1, Len(a)) = a
    \/ \E i \in 1..(IF Len(a) < Len(b) THEN Len(a) ELSE Len(b)) :
          /\ CharCode(a[i]) < CharCode(b[i])
          /\ \A j \in 1..(i - 1) : a[j] = b[j]

NoMatrix == [done |-> FALSE, Include |-> <<>>]

GapsIdle ==
    /\ gapVersions = <<>>
    /\ existingMeta = {}
    /\ matrix = NoMatrix

GapsInit == GapsIdle

\* fetchKnownVersions found one more version, the next in order.
AddKnownVersion(c) ==
    /\ Len(gapVersions) < MaxGapVersions
    /\ \A i \in DOMAIN gapVersions : StringLess(gapVersions[i], Render(c))
    /\ gapVersions' = Append(gapVersions, Render(c))
    /\ matrix' = NoMatrix
    /\ UNCHANGED existingMeta
    /\ UNCHANGED notGapsVars

\* The bucket holds one more meta file.
PutMeta(c, i) ==
    /\ Cardinality(existingMeta) < MaxMeta
    /\ MetaKey(Render(c), allPlatforms[i].Name) \notin existingMeta
    /\ existingMeta' = existingMeta \cup {MetaKey(Render(c), allPlatforms[i].Name)}
    /\ matrix' = NoMatrix
    /\ UNCHANGED gapVersions
    /\ UNCHANGED notGapsVars

\* A call of computeGaps(versions, existingMeta).
CallComputeGaps ==
    /\ ~matrix.done
    /\ matrix' = [done |-> TRUE, Include |-> computeGaps(gapVersions, existingMeta)]
    /\ UNCHANGED <<gapVersions, existingMeta>>
    /\ UNCHANGED notGapsVars

GapsNext ==
    \/ \E c \in GapVersionPool : AddKnownVersion(c)
    \/ \E c \in GapVersionPool, i \in DOMAIN allPlatforms : PutMeta(c, i)
    \/ CallComputeGaps

(***************************************************************************)
(* The claim on computeGaps.                                               *)
(***************************************************************************)

PlatformNames == {allPlatforms[i].Name : i \in DOMAIN allPlatforms}

\* A version below 3.1, by the numbers it was written from.
Below31(version) ==
    LET nums == GapVersionRec(version).nums
    IN  nums[1] < 3 \/ (nums[1] = 3 /\ nums[2] < 1)

\* The pairs that are missing from the bucket.
MissingPairs ==
    {pair \in {gapVersions[i] : i \in DOMAIN gapVersions} \X PlatformNames :
        /\ MetaKey(pair[1], pair[2]) \notin existingMeta
        /\ ~(pair[2] = "darwin-arm64" /\ Below31(pair[1]))}

\* C25: computeGaps returns exactly the pairs of a given version and one
\* of the six platforms whose key ruby/<version>/<platform>.meta.json is
\* not among the existing keys, darwin-arm64 left out for versions below
\* 3.1; each pair once.
GapsAreTheMissingPairs ==
    matrix.done =>
        /\ {<<matrix.Include[i].Version, matrix.Include[i].Platform>> :
                i \in DOMAIN matrix.Include} = MissingPairs
        /\ Len(matrix.Include) = Cardinality(MissingPairs)
        /\ Len(allPlatforms) = 6

\* C25's case: of 3.0.6 and 3.1.0, with the linux-amd64 file of 3.1.0 in
\* the bucket, five platforms are missing for 3.0.6 (darwin-arm64 left
\* out) and five for 3.1.0.
GapsComputedAroundArm64 ==
    /\ matrix.done
    /\ gapVersions = <<Render(Ver(FALSE, <<3, 0, 6>>, NoPre)),
                       Render(Ver(FALSE, <<3, 1, 0>>, NoPre))>>
    /\ existingMeta = {MetaKey(Render(Ver(FALSE, <<3, 1, 0>>, NoPre)), "linux-amd64")}
    /\ Len(matrix.Include) = 10

(***************************************************************************)
(* Part 11: fetchJobsFromUpstream of scripts/mirror-binaries.  A source    *)
(* answers FetchVersions with an error or with a list of jobs; a job       *)
(* carries its version, its platform and a URL, which names the source     *)
(* and the job's place in that source's list.                              *)
(***************************************************************************)

MaxJobs == 2

JobVersions == {"1.0", "2.0"}
JobPlatforms == {"linux-amd64", "windows-amd64"}
Runtimes == {"node", "python", "ruby", "go"}

\* getUpstreamSources(runtime)
getUpstreamSources(runtime) ==
    CASE runtime = "node" ->
             [sources |-> <<"NodeOfficialSource">>, err |-> "nil"]
      [] runtime = "python" ->
             [sources |-> <<"PythonStandaloneSource", "PythonOfficialSource">>,
              err |-> "nil"]
      [] runtime = "ruby" ->
             [sources |-> <<"RubyInstallerSource", "RubyBuilderSource">>,
              err |-> "nil"]
      [] OTHER -> [sources |-> <<>>, err |-> "unknown runtime"]

MirrorJob(version, platform, url) ==
    [Version |-> version, Platform |-> platform, URL |-> url]

\* What source.FetchVersions() may return: an error, or a list of jobs.
\* PythonOfficialSource returns the empty list.
SourceAnswers(source) ==
    IF source = "PythonOfficialSource" THEN {[err |-> "nil", jobs |-> <<>>]}
    ELSE {[err |-> "fetch failed", jobs |-> <<>>]} \cup
         {[err |-> "nil",
           jobs |-> [i \in 1..n |-> MirrorJob(vs[i], ps[i], <<source, i>>)]] :
             <<n, vs, ps>> \in
                 UNION {{n} \X [1..n -> JobVersions] \X [1..n -> JobPlatforms] :
                           n \in 0..MaxJobs}}

\* fmt.Sprintf("%s/%s", job.Version, job.Platform)
JobKey(job) == <<job.Version, "/", job.Platform>>

\* A faulty variant of the loop over jobs: a job whose key was seen takes
\* the place of the job that had it.
RECURSIVE AddJobsLastWins(_, _)
AddJobsLastWins(acc, jobs) ==
    IF jobs = <<>> THEN acc
    ELSE LET job == Head(jobs)
             Other(j) == JobKey(j) # JobKey(job)
         IN  AddJobsLastWins([allJobs |-> Append(SelectSeq(acc.allJobs, Other), job),
                              seen |-> acc.seen \cup {JobKey(job)}],
                             Tail(jobs))

\* The loop over jobs: a job is appended unless its key was seen.
RECURSIVE AddJobs(_, _)
AddJobs(acc, jobs) ==
    IF jobs = <<>> THEN acc
    ELSE LET job == Head(jobs)
         IN  IF JobKey(job) \notin acc.seen
             THEN AddJobs([allJobs |-> Append(acc.allJobs, job),
                           seen |-> acc.seen \cup {JobKey(job)}],
                          Tail(jobs))
             ELSE AddJobs(acc, Tail(jobs))

\* A faulty variant of the handling of a source's error: the call fails.
OnSourceErrorReturn(jobs) == [continue |-> FALSE, jobs |-> <<>>, err |-> "source failed"]

\* A source's error is warned about and the loop continues.
OnSourceError(jobs) == [continue |-> TRUE, jobs |-> jobs, err |-> "nil"]

NoJobsReturn == [done |-> FALSE, jobs |-> <<>>, err |-> "nil"]

JobsIdle ==
    /\ jpc = "idle"
    /\ jruntime = ""
    /\ sources = <<>>
    /\ srcIdx = 0
    /\ allJobs = <<>>
    /\ seen = {}
    /\ answers = <<>>
    /\ jret = NoJobsReturn

JobsInit == JobsIdle

\* fetchJobsFromUpstream(runtime) is called: getUpstreamSources, and the
\* return of its error.
CallFetchJobs(runtime) ==
    /\ jpc \in {"idle", "done"}
    /\ jruntime' = runtime
    /\ allJobs' = <<>>
    /\ seen' = {}
    /\ answers' = <<>>
    /\ LET got == getUpstreamSources(runtime)
       IN  IF got.err # "nil"
           THEN /\ jpc' = "done"
                /\ sources' = <<>>
                /\ srcIdx' = 0
                /\ jret' = [done |-> TRUE, jobs |-> <<>>, err |-> got.err]
           ELSE /\ jpc' = "loop"
                /\ sources' = got.sources
                /\ srcIdx' = 1
                /\ jret' = NoJobsReturn
    /\ UNCHANGED notJobsVars

\* One turn of the loop over sources: source.FetchVersions() answers.
QuerySource(answer) ==
    /\ jpc = "loop"
    /\ srcIdx <= Len(sources)
    /\ answer \in SourceAnswers(sources[srcIdx])
    /\ answers' = Append(answers, [source |-> sources[srcIdx], err |-> answer.err,
                                   jobs |-> answer.jobs])
    /\ IF answer.err # "nil"
       THEN LET on == OnSourceError(allJobs)
            IN  IF on.continue
                THEN /\ srcIdx' = srcIdx + 1
                     /\ allJobs' = on.jobs
                     /\ UNCHANGED <<jpc, seen, jret>>
                ELSE /\ jpc' = "done"
                     /\ jret' = [done |-> TRUE, jobs |-> on.jobs, err |-> on.err]
                     /\ allJobs' = on.jobs
                     /\ UNCHANGED <<srcIdx, seen>>
       ELSE LET acc == AddJobs([allJobs |-> allJobs, seen |-> seen], answer.jobs)
            IN  /\ allJobs' = acc.allJobs
                /\ seen' = acc.seen
                /\ srcIdx' = srcIdx + 1
                /\ UNCHANGED <<jpc, jret>>
    /\ UNCHANGED <<jruntime, sources>>
    /\ UNCHANGED notJobsVars

\* The loop is left: return allJobs, nil.
FetchJobsReturn ==
    /\ jpc = "loop"
    /\ srcIdx > Len(sources)
    /\ jret' = [done |-> TRUE, jobs |-> allJobs, err |-> "nil"]
    /\ jpc' = "done"
    /\ UNCHANGED <<jruntime, sources, srcIdx, allJobs, seen, answers>>
    /\ UNCHANGED notJobsVars

AllAnswers == UNION {SourceAnswers(s) : s \in
    {"NodeOfficialSource", "PythonStandaloneSource", "PythonOfficialSource",
     "RubyInstallerSource", "RubyBuilderSource"}}

JobsNext ==
    \/ \E runtime \in Runtimes : CallFetchJobs(runtime)
    \/ \E answer \in AllAnswers : QuerySource(answer)
    \/ FetchJobsReturn

(***************************************************************************)
(* The claims on fetchJobsFromUpstream.                                    *)
(***************************************************************************)

\* The jobs the sources have offered in this call, in source order.
RECURSIVE Offered(_)
Offered(ans) ==
    IF ans = <<>> THEN <<>>
    ELSE Offered(SubSeq(ans, 1, Len(ans) - 1)) \o ans[Len(ans)].jobs

JobPair(job) == <<job.Version, job.Platform>>

\* The places of Offered where a (version, platform) pair comes first.
FirstPlaces(offered) ==
    {i \in DOMAIN offered :
        \A j \in 1..(i - 1) : JobPair(offered[j]) # JobPair(offered[i])}

\* C24: the jobs collected, and returned, by fetchJobsFromUpstream hold no
\* (version, platform) pair twice; they are the jobs that came first with
\* their pair in source order, in that order; and a job once collected
\* stays, at its place, while later sources answer.
FirstSourceWins ==
    LET offered == Offered(answers)
        first == FirstPlaces(offered)
    IN  /\ \A i, j \in DOMAIN allJobs :
               i # j => JobPair(allJobs[i]) # JobPair(allJobs[j])
        /\ Len(allJobs) = Cardinality(first)
        /\ \A k \in DOMAIN allJobs :
               \E i \in first :
                   /\ allJobs[k] = offered[i]
                   /\ Cardinality({j \in first : j < i}) = k - 1
        /\ (jret.done /\ jret.err = "nil") => jret.jobs = allJobs

\* C24's case: both Ruby sources offered 1.0 for linux-amd64, the second
\* one also 2.0, and the call returned the first source's job and the new
\* one.
SecondSourceOfferedSamePair ==
    /\ jret.done
    /\ jruntime = "ruby"
    /\ Len(answers) = 2
    /\ answers[1].jobs = <<MirrorJob("1.0", "linux-amd64", <<"RubyInstallerSource", 1>>)>>
    /\ Len(answers[2].jobs) = 2
    /\ JobPair(answers[2].jobs[1]) = <<"1.0", "linux-amd64">>
    /\ jret.jobs = <<MirrorJob("1.0", "linux-amd64", <<"RubyInstallerSource", 1>>),
                     MirrorJob("2.0", "linux-amd64", <<"RubyBuilderSource", 2>>)>>

KnownRuntime == jruntime \in {"node", "python", "ruby"}

\* C29: for a known runtime a call does not fail because of a source: a
\* source that answers with an error costs none of the jobs collected,
\* every source of the runtime is queried in order whatever the others
\* answered, and the call returns a nil error, with no job when every
\* source failed; an error is returned for an unknown runtime only.
SourceFailureIsSkipped ==
    /\ jpc = "loop" =>
          /\ Len(answers) = srcIdx - 1
          /\ \A i \in DOMAIN answers : answers[i].source = sources[i]
    /\ \A i \in DOMAIN answers : \A k \in DOMAIN answers[i].jobs :
          \E j \in DOMAIN allJobs : JobPair(allJobs[j]) = JobPair(answers[i].jobs[k])
    /\ jret.done =>
          /\ jret.err # "nil" <=> ~KnownRuntime
          /\ KnownRuntime =>
                /\ [i \in DOMAIN answers |-> answers[i].source]
                       = getUpstreamSources(jruntime).sources
                /\ jret.jobs = allJobs
                /\ (\A i \in DOMAIN answers : answers[i].err # "nil")
                       => jret.jobs = <<>>

\* C29's case: the first Ruby source failed, the second was queried and
\* its job was returned with a nil error.
FirstSourceFailedSecondKept ==
    /\ jret.done
    /\ jruntime = "ruby"
    /\ Len(answers) = 2
    /\ answers[1].err # "nil"
    /\ answers[2].err = "nil"
    /\ Len(jret.jobs) = 1
    /\ jret.err = "nil"

(***************************************************************************)
(* Part 12: autoSetGlobalIfNeeded(provider, version), called by the        *)
(* install command after an install (cmd/install_test.go).  The provider   *)
(* stores one global version; SetGlobalVersion stores its argument or      *)
(* fails and stores nothing.                                               *)
(***************************************************************************)

MaxInstalls == 3

InstallableVersions == {"1.0.0", "2.0.0", "3.0.0"}

\* A faulty variant of autoSetGlobalIfNeeded: the global version is set
\* after every install.
autoSetGlobalAlways(globalVersion, version) == <<version>>

\* autoSetGlobalIfNeeded: the calls of SetGlobalVersion it makes, given
\* what provider.GlobalVersion() returned.
autoSetGlobalIfNeeded(globalVersion, version) ==
    IF globalVersion = Unset THEN <<version>> ELSE <<>>

AutoIdle ==
    /\ providerGlobal = Unset
    /\ setGlobalCalls = <<>>
    /\ autoCalls = <<>>

AutoInit ==
    /\ providerGlobal \in {Unset} \cup InstallableVersions
    /\ setGlobalCalls = <<>>
    /\ autoCalls = <<>>

\* An install of version has succeeded: autoSetGlobalIfNeeded(provider,
\* version); setErr is what SetGlobalVersion returns if it is called.
AutoSetGlobal(version, setErr) ==
    /\ Len(autoCalls) < MaxInstalls
    /\ autoCalls' = Append(autoCalls, version)
    /\ LET calls == autoSetGlobalIfNeeded(providerGlobal, version)
       IN  /\ setGlobalCalls' = setGlobalCalls \o
                 [i \in DOMAIN calls |->
                     [version |-> calls[i], err |-> setErr, install |-> Len(autoCalls) + 1]]
           /\ providerGlobal' =
                 IF calls # <<>> /\ ~setErr THEN calls[Len(calls)]
                 ELSE providerGlobal
    /\ UNCHANGED notAutoVars

AutoNext ==
    \E version \in InstallableVersions, setErr \in BOOLEAN :
        AutoSetGlobal(version, setErr)

(***************************************************************************)
(* The claim on autoSetGlobalIfNeeded.                                     *)
(***************************************************************************)

\* One call of autoSetGlobalIfNeeded: with no global version set it calls
\* SetGlobalVersion once, with the installed version; with one set it
\* makes no call and the global version stays.
AutoSetStep ==
    autoCalls' # autoCalls =>
        /\ providerGlobal = Unset =>
              /\ Len(setGlobalCalls') = Len(setGlobalCalls) + 1
              /\ setGlobalCalls'[Len(setGlobalCalls')].version = autoCalls'[Len(autoCalls')]
              /\ SubSeq(setGlobalCalls', 1, Len(setGlobalCalls)) = setGlobalCalls
        /\ providerGlobal # Unset =>
              /\ setGlobalCalls' = setGlobalCalls
              /\ providerGlobal' = providerGlobal

\* Over the installs so far at most one call of SetGlobalVersion has set
\* the global version, every call was made by an install that found none
\* set, and when the first install found none set and its call succeeded
\* it is the only call there is.
OnlyFirstInstallSetsGlobal ==
    /\ Cardinality({i \in DOMAIN setGlobalCalls : ~setGlobalCalls[i].err}) <= 1
    /\ \A i \in DOMAIN setGlobalCalls :
          /\ ~setGlobalCalls[i].err => i = Len(setGlobalCalls)
          /\ ~setGlobalCalls[i].err => providerGlobal = setGlobalCalls[i].version
    /\ (setGlobalCalls # <<>> /\ ~setGlobalCalls[1].err) =>
          /\ Len(setGlobalCalls) = 1
          /\ providerGlobal = autoCalls[setGlobalCalls[1].install]

\* C22: autoSetGlobalIfNeeded(provider, v) calls SetGlobalVersion(v)
\* exactly once when the provider has no global version set and never
\* when one is set, so that over any sequence of installs only the first
\* sets the global version and the later ones leave it as it is.
AutoSetsGlobalOnceOnly ==
    /\ [][AutoSetStep]_vars
    /\ []OnlyFirstInstallSetsGlobal

\* C22's case: three installs on a provider with no global version; the
\* first set it, the two after it made no call.
ThreeInstallsOneSetGlobal ==
    /\ autoCalls = <<"1.0.0", "2.0.0", "3.0.0">>
    /\ setGlobalCalls = <<[version |-> "1.0.0", err |-> FALSE, install |-> 1]>>
    /\ providerGlobal = "1.0.0"

(***************************************************************************)
(* Part 13: the processes that run AddToPath and the init command          *)
(* (cmd/init.go) on Windows, over the registry PATH values of Part 8 and   *)
(* the settings file of Part 9.  A process is a bare call of AddToPath or  *)
(* a run of dtvem init.  Each step of a process is one access to the       *)
(* registry or to the file system, or one answer typed at a prompt, so     *)
(* that processes overlap: a run waits at its prompt while another runs,   *)
(* and relaunchElevated starts a process of its own, dtvem init without    *)
(* flags as administrator, and returns to its caller.  EnsureDirectories   *)
(* is not among the sources: as its test has it, it fails or leaves the    *)
(* config directory in place.                                              *)
(***************************************************************************)

MaxRuns == 2

\* The processes under way at one time.
MaxLive == 2

\* path.ShimsDir()
ShimsDir == "S"

\* The processes the user starts, and with them the elevated process each
\* of them may launch.
UserProcs == 1..MaxRuns
Procs == 1..(2 * MaxRuns)
ChildOf(p) == p + MaxRuns

NoPathRead == [exists |-> FALSE, entries |-> <<>>]

\* A process that has not been started.  Of a process: pc is the step it
\* is at; kind is "call" for a bare call of AddToPath and "init" for a run
\* of the command; origin is who started it; changed, flagUser and yes are
\* Flags().Changed("user"), initUser and initYes (yes is skipConfirmation
\* for a bare call); admin is what isAdmin returns; the fields from
\* ensureErr to saveErr are the locals of Run and of AddToPath and what
\* they returned.  The others record the run for the properties below:
\* readType is the install type the settings file recorded when
\* LoadSettings read it, checkedFirst whether the check found the shims
\* directory first, before and after the PATH value modify read and the
\* one it wrote, steps the functions Run has called, later whether the
\* run was started without --user after an init --user had saved its
\* settings, endType the install type recorded when the process ended.
NoProc ==
    [pc |-> "idle", kind |-> "none", origin |-> "none",
     changed |-> FALSE, flagUser |-> FALSE, yes |-> FALSE, admin |-> FALSE,
     shimsDir |-> "", ensureErr |-> FALSE, userInstall |-> FALSE,
     previousSettings |-> NilSettings, isSwitching |-> FALSE, readType |-> "",
     checkedFirst |-> FALSE, action |-> "", before |-> NoPathRead,
     after |-> NoPathRead, wrote |-> FALSE, pathErr |-> "", saveErr |-> "",
     steps |-> <<>>, later |-> FALSE, endType |-> ""]

\* The shims directory is the first entry of a PATH value: the first of
\* its entries, white space and letter case aside.
ShimsFirst(reg, shimsDir) ==
    /\ reg.exists
    /\ reg.entries # <<>>
    /\ ToFold(TrimSpace(reg.entries[1])) = ToFold(shimsDir)

\* The install type a settings file written by SaveSettings records, ""
\* if the file is none.
SavedType(dir, file) ==
    IF dir = "dir" /\ file = FileWith(MarshalIndent(InstallTypeUser)) THEN "user"
    ELSE IF dir = "dir" /\ file = FileWith(MarshalIndent(InstallTypeSystem)) THEN "system"
    ELSE ""

\* isSwitching, of previousSettings, _ := config.LoadSettings()
isSwitching(changed, userInstall, previousSettings) ==
    /\ changed
    /\ ~previousSettings.isNil
    /\ \/ userInstall /\ previousSettings.installType = InstallTypeSystem
       \/ ~userInstall /\ previousSettings.installType = InstallTypeUser

\* A faulty variant of the return after AddToPath: the settings are saved
\* whatever AddToPath returned.
ReachesSaveSettingsAlways(ensureErr, pathErr) == ~ensureErr

\* The returns of Run: AddToPath is reached when EnsureDirectories
\* returned no error, SaveSettings when AddToPath returned none either.
ReachesAddToPath(ensureErr) == ~ensureErr
ReachesSaveSettings(ensureErr, pathErr) == ~ensureErr /\ pathErr = "nil"

\* The process has ended: the install type the settings file records as
\* it leaves it, unless another process has the file open for writing.
Finished(p, pr, dir, file) ==
    [pr EXCEPT !.pc = "done",
               !.endType = IF \E q \in DOMAIN procs :
                                  q # p /\ procs[q].pc = "saveWrite"
                            THEN "writing"
                            ELSE SavedType(dir, file)]

\* AddToPath returns err: a bare call ends there, Run returns on an error
\* and goes on to SaveSettings without one.
Returned(p, pr, err) ==
    IF pr.kind = "init" /\ ReachesSaveSettings(pr.ensureErr, err)
    THEN [pr EXCEPT !.pathErr = err, !.pc = "saveOpen"]
    ELSE Finished(p, [pr EXCEPT !.pathErr = err], configDir, settingsFile)

\* The length of the document MarshalIndent writes, beyond the type's name.
TypeLen(doc) ==
    IF doc = MarshalIndent(InstallTypeUser) THEN 4
    ELSE IF doc = MarshalIndent(InstallTypeSystem) THEN 6
    ELSE 0

\* f.Write(data) at the start of a file opened with O_TRUNC: the data,
\* followed by what the file holds beyond them.  Since the file was
\* opened it holds nothing, a document of MarshalIndent, or the shorter
\* of the two followed by the end of the longer.
WriteAt(held, data) ==
    IF held.kind = "empty" THEN data
    ELSE IF held.kind = "garbage"
    THEN IF data = MarshalIndent(InstallTypeSystem) THEN data ELSE held
    ELSE IF TypeLen(held) > TypeLen(data)
    THEN [kind |-> "garbage", members |-> <<>>]
    ELSE data

settingsCalls == <<loaded, isUser, saved, determined>>

\* The processes under way, and the place the next process the user
\* starts takes.
NotLive(q) == procs[q].pc \in {"idle", "done"}
Live == {q \in Procs : ~NotLive(q)}
FreeSlot(p) ==
    /\ p \in UserProcs
    /\ procs[p].pc = "idle"
    /\ \A q \in UserProcs : q < p => procs[q].pc # "idle"

\* What the processes and the installer script leave alone.
otherPartsVars == <<resolverVars, installVars, manifestVars, sourceVars,
                    selectionVars, httpVars, gapsVars, jobsVars, autoVars>>

procRestVars == <<otherPartsVars, scriptVars>>

\* A bare call AddToPath(shimsDir, skipConfirmation, userInstall); the
\* caller calls again once the call before has returned.
CallAddToPath(p, shimsDir, skipConfirmation, userInstall, admin) ==
    /\ FreeSlot(p)
    /\ \A q \in UserProcs : NotLive(q)
    /\ Cardinality(Live) < MaxLive
    /\ procs' = [procs EXCEPT ![p] =
                    [NoProc EXCEPT !.pc = "addToPath", !.kind = "call",
                                   !.origin = "user", !.yes = skipConfirmation,
                                   !.userInstall = userInstall, !.admin = admin,
                                   !.shimsDir = shimsDir]]
    /\ UNCHANGED <<userPath, systemPath, configDir, settingsFile, userSaved>>
    /\ UNCHANGED settingsCalls
    /\ UNCHANGED procRestVars

\* dtvem init [--user[=false]] [--yes], started by the user while other
\* runs may be under way.
StartInit(p, changed, flagUser, yes, admin) ==
    /\ FreeSlot(p)
    /\ Cardinality(Live) < MaxLive
    /\ ~changed => ~flagUser
    /\ procs' = [q \in Procs |->
                    IF q = p
                    THEN [NoProc EXCEPT !.pc = "ensure", !.kind = "init",
                                        !.origin = "user", !.changed = changed,
                                        !.flagUser = flagUser, !.yes = yes,
                                        !.admin = admin, !.shimsDir = ShimsDir,
                                        !.later = userSaved /\ ~changed]
                    ELSE IF changed /\ ~flagUser
                    THEN [procs[q] EXCEPT !.later = FALSE]
                    ELSE procs[q]]
    /\ userSaved' = IF changed /\ ~flagUser THEN FALSE ELSE userSaved
    /\ UNCHANGED <<userPath, systemPath, configDir, settingsFile>>
    /\ UNCHANGED settingsCalls
    /\ UNCHANGED procRestVars

\* config.EnsureDirectories()
RunEnsureDirectories(p, err) ==
    /\ procs[p].pc = "ensure"
    /\ configDir = "file" => err
    /\ LET pr == [procs[p] EXCEPT !.steps = <<"EnsureDirectories">>,
                                  !.ensureErr = err]
       IN  IF ReachesAddToPath(err)
           THEN /\ procs' = [procs EXCEPT ![p] = [pr EXCEPT !.pc = "determine"]]
                /\ configDir' = "dir"
           ELSE /\ procs' = [procs EXCEPT ![p] = Finished(p, pr, configDir, settingsFile)]
                /\ UNCHANGED configDir
    /\ UNCHANGED <<userPath, systemPath, settingsFile, userSaved>>
    /\ UNCHANGED settingsCalls
    /\ UNCHANGED procRestVars

\* userInstall := determineInstallType(cmd)
RunDetermineInstallType(p) ==
    /\ procs[p].pc = "determine"
    /\ LET pr == procs[p]
           userInstall == determineInstallType(pr.changed, pr.flagUser,
                                               configDir, settingsFile)
           l == LoadSettings(configDir, settingsFile)
       IN  /\ procs' = [procs EXCEPT ![p] =
                           [pr EXCEPT !.userInstall = userInstall,
                                      !.pc = "load",
                                      !.steps = Append(@, "determineInstallType")]]
           /\ determined' = [called |-> TRUE, changed |-> pr.changed,
                             flagUser |-> pr.flagUser, userInstall |-> userInstall]
           /\ loaded' = IF pr.changed THEN loaded
                        ELSE [called |-> TRUE, settings |-> l.settings, err |-> l.err]
    /\ UNCHANGED <<userPath, systemPath, configDir, settingsFile, userSaved,
                   isUser, saved>>
    /\ UNCHANGED procRestVars

\* previousSettings, _ := config.LoadSettings(), isSwitching and the warning.
RunLoadSettings(p) ==
    /\ procs[p].pc = "load"
    /\ LET pr == procs[p]
           l == LoadSettings(configDir, settingsFile)
       IN  /\ procs' = [procs EXCEPT ![p] =
                           [pr EXCEPT !.previousSettings = l.settings,
                                      !.isSwitching =
                                          isSwitching(pr.changed, pr.userInstall,
                                                      l.settings),
                                      !.readType = SavedType(configDir, settingsFile),
                                      !.pc = "addToPath",
                                      !.steps = Append(@, "LoadSettings")]]
           /\ loaded' = [called |-> TRUE, settings |-> l.settings, err |-> l.err]
    /\ UNCHANGED <<userPath, systemPath, configDir, settingsFile, userSaved,
                   isUser, saved, determined>>
    /\ UNCHANGED procRestVars

\* addToUserPath: detectSystemRuntimeConflicts, which finds nothing when
\* the registry key does not open, and the warning, which asks unless
\* skipConfirmation is set.
PathDetectConflicts(p, regOk) ==
    /\ procs[p].pc = "addToPath"
    /\ procs[p].userInstall
    /\ LET pr == [procs[p] EXCEPT !.steps = Append(@, "AddToPath")]
           conflicts == regOk /\ detectSystemRuntimeConflicts(systemPath, pr.shimsDir)
       IN  procs' = [procs EXCEPT ![p] =
                        [pr EXCEPT !.pc = IF conflicts /\ ~pr.yes
                                          THEN "conflictPrompt"
                                          ELSE "checkUser"]]
    /\ UNCHANGED <<userPath, systemPath, configDir, settingsFile, userSaved>>
    /\ UNCHANGED settingsCalls
    /\ UNCHANGED procRestVars

\* warnAboutSystemConflicts: the answer at "Continue with user install?".
PathAnswerConflicts(p, response) ==
    /\ procs[p].pc = "conflictPrompt"
    /\ procs' = [procs EXCEPT ![p] =
                    IF response = "y"
                    THEN [procs[p] EXCEPT !.pc = "checkUser"]
                    ELSE Returned(p, procs[p], "nil")]
    /\ UNCHANGED <<userPath, systemPath, configDir, settingsFile, userSaved>>
    /\ UNCHANGED settingsCalls
    /\ UNCHANGED procRestVars

\* addToUserPath: checkUserPath; the registry key opens or not.
PathCheckUser(p, regOk) ==
    /\ procs[p].pc = "checkUser"
    /\ LET pr == procs[p]
           chk == checkUserPath(userPath, pr.shimsDir)
           read == [pr EXCEPT !.checkedFirst = ShimsFirst(userPath, pr.shimsDir)]
       IN  procs' = [procs EXCEPT ![p] =
                        IF ~regOk THEN Returned(p, pr, "registry")
                        ELSE IF ~chk.needsUpdate THEN Returned(p, read, "nil")
                        ELSE [read EXCEPT !.action = chk.action,
                                          !.pc = "modifyRead"]]
    /\ UNCHANGED <<userPath, systemPath, configDir, settingsFile, userSaved>>
    /\ UNCHANGED settingsCalls
    /\ UNCHANGED procRestVars

\* addToSystemPath: checkSystemPath and isAdmin; the registry key opens or
\* not.  promptForElevation asks unless skipConfirmation is set.
PathCheckSystem(p, regOk) ==
    /\ procs[p].pc = "addToPath"
    /\ ~procs[p].userInstall
    /\ LET pr == [procs[p] EXCEPT !.steps = Append(@, "AddToPath")]
           chk == checkSystemPath(systemPath, pr.shimsDir)
           read == [pr EXCEPT !.checkedFirst = ShimsFirst(systemPath, pr.shimsDir)]
       IN  procs' = [procs EXCEPT ![p] =
                        IF ~regOk THEN Returned(p, pr, "registry")
                        ELSE IF ~chk.needsUpdate THEN Returned(p, read, "nil")
                        ELSE [read EXCEPT !.action = chk.action,
                                          !.pc = IF pr.admin THEN "modifyRead"
                                                 ELSE IF pr.yes THEN "relaunch"
                                                 ELSE "elevatePrompt"]]
    /\ UNCHANGED <<userPath, systemPath, configDir, settingsFile, userSaved>>
    /\ UNCHANGED settingsCalls
    /\ UNCHANGED procRestVars

\* promptForElevation: the answer at "Re-run with administrator privileges?".
PathAnswerElevation(p, response) ==
    /\ procs[p].pc = "elevatePrompt"
    /\ procs' = [procs EXCEPT ![p] =
                    IF response # "" /\ response # "y"
                    THEN Returned(p, procs[p], "nil")
                    ELSE [procs[p] EXCEPT !.pc = "relaunch"]]
    /\ UNCHANGED <<userPath, systemPath, configDir, settingsFile, userSaved>>
    /\ UNCHANGED settingsCalls
    /\ UNCHANGED procRestVars

\* relaunchElevated: ShellExecute starts "dtvem init" as administrator,
\* once the user has consented, and returns, or fails.
PathRelaunchElevated(p, launched) ==
    /\ procs[p].pc = "relaunch"
    /\ p \in UserProcs
    /\ launched => Cardinality(Live) < MaxLive
    /\ procs' =
          IF launched
          THEN [procs EXCEPT ![p] = Returned(p, procs[p], "nil"),
                             ![ChildOf(p)] =
                                 [NoProc EXCEPT !.pc = "ensure", !.kind = "init",
                                                !.origin = "elevated",
                                                !.admin = TRUE,
                                                !.shimsDir = ShimsDir,
                                                !.later = userSaved]]
          ELSE [procs EXCEPT ![p] = Returned(p, procs[p], "failed to elevate")]
    /\ UNCHANGED <<userPath, systemPath, configDir, settingsFile, userSaved>>
    /\ UNCHANGED settingsCalls
    /\ UNCHANGED procRestVars

\* modifyUserPath, modifySystemPath: the key opens for writing or not,
\* and key.GetStringValue("Path").
PathModifyRead(p, regOk) ==
    /\ procs[p].pc = "modifyRead"
    /\ procs' = [procs EXCEPT ![p] =
                    IF ~regOk THEN Returned(p, procs[p], "registry")
                    ELSE [procs[p] EXCEPT !.before = IF procs[p].userInstall
                                                     THEN userPath ELSE systemPath,
                                          !.pc = "modifyWrite"]]
    /\ UNCHANGED <<userPath, systemPath, configDir, settingsFile, userSaved>>
    /\ UNCHANGED settingsCalls
    /\ UNCHANGED procRestVars

\* modifyUserPath, modifySystemPath: key.SetStringValue("Path", newPath),
\* newPath built from the value read; the write is made or fails.
PathModifyWrite(p, regOk) ==
    /\ procs[p].pc = "modifyWrite"
    /\ LET pr == procs[p]
           newPath == IF pr.userInstall
                      THEN modifyUserPath(pr.before, pr.shimsDir)
                      ELSE modifySystemPath(pr.before, pr.shimsDir)
       IN  IF regOk
           THEN /\ userPath' = IF pr.userInstall THEN newPath ELSE userPath
                /\ systemPath' = IF pr.userInstall THEN systemPath ELSE newPath
                /\ procs' = [procs EXCEPT ![p] =
                                Returned(p, [pr EXCEPT !.wrote = TRUE,
                                                       !.after = newPath], "nil")]
           ELSE /\ UNCHANGED <<userPath, systemPath>>
                /\ procs' = [procs EXCEPT ![p] = Returned(p, pr, "registry")]
    /\ UNCHANGED <<configDir, settingsFile, userSaved>>
    /\ UNCHANGED settingsCalls
    /\ UNCHANGED procRestVars

\* The install type Run saves.
InstallTypeOf(pr) ==
    IF pr.userInstall THEN InstallTypeUser ELSE InstallTypeSystem

\* config.SaveSettings: MkdirAll, MarshalIndent, and os.WriteFile opening
\* the file, which empties it.  The directory is in place since
\* EnsureDirectories.
SaveOpenFile(p) ==
    /\ procs[p].pc = "saveOpen"
    /\ LET pr == [procs[p] EXCEPT !.steps = Append(@, "SaveSettings")]
           err == IF configDir = "file" THEN "ENOTDIR"
                  ELSE IF settingsFile.state = "dir" THEN "EISDIR"
                  ELSE "nil"
       IN  IF err = "nil"
           THEN /\ procs' = [procs EXCEPT ![p] = [pr EXCEPT !.pc = "saveWrite"]]
                /\ configDir' = "dir"
                /\ settingsFile' = FileWith([kind |-> "empty", members |-> <<>>])
                /\ saved' = NoSave
           ELSE /\ procs' = [procs EXCEPT ![p] =
                                Finished(p, [pr EXCEPT !.saveErr = err],
                                         configDir, settingsFile)]
                /\ UNCHANGED <<configDir, settingsFile>>
                /\ saved' = [called |-> TRUE, ok |-> FALSE,
                             installType |-> InstallTypeOf(pr),
                             createdDir |-> FALSE, count |-> 0]
    /\ loaded' = NoLoad
    /\ isUser' = NoIsUser
    /\ determined' = NoDetermine
    /\ UNCHANGED <<userPath, systemPath, userSaved>>
    /\ UNCHANGED procRestVars

\* os.WriteFile: the data are written and Run goes on to its end.
SaveWriteFile(p) ==
    /\ procs[p].pc = "saveWrite"
    /\ LET pr == procs[p]
           file == FileWith(WriteAt(settingsFile.doc,
                                    MarshalIndent(InstallTypeOf(pr))))
           others == {q \in Procs \ {p} :
                        /\ procs[q].pc \notin {"idle", "done"}
                        /\ procs[q].changed /\ ~procs[q].flagUser}
       IN  /\ settingsFile' = file
           /\ procs' = [procs EXCEPT ![p] =
                           Finished(p, [pr EXCEPT !.saveErr = "nil"], configDir,
                                    file)]
           /\ saved' = [called |-> TRUE, ok |-> TRUE,
                        installType |-> InstallTypeOf(pr),
                        createdDir |-> FALSE, count |-> 1]
           /\ userSaved' = IF /\ pr.changed /\ pr.flagUser /\ others = {}
                              /\ file = FileWith(MarshalIndent(InstallTypeUser))
                           THEN TRUE ELSE userSaved
    /\ loaded' = NoLoad
    /\ isUser' = NoIsUser
    /\ determined' = NoDetermine
    /\ UNCHANGED <<userPath, systemPath, configDir>>
    /\ UNCHANGED procRestVars

InitCmdIdle == userSaved = FALSE

PathIdle ==
    /\ userPath = NoPathRead
    /\ systemPath = NoPathRead
    /\ procs = [p \in Procs |-> NoProc]

\* A few User and System PATH values.
InitUserPaths ==
    { [exists |-> FALSE, entries |-> <<>>],
      [exists |-> TRUE, entries |-> <<"S">>] }

InitSystemPaths ==
    { [exists |-> TRUE, entries |-> <<"X">>],
      [exists |-> TRUE, entries |-> <<"S">>] }

\* Before the first call of AddToPath: any value of the User PATH beside
\* a System PATH that holds a runtime, any value of the System PATH beside
\* no User PATH, or a few values of both; no settings file, or beside the
\* few values the one an init --user saved.
PathInit ==
    /\ userPath \in PathValues
    /\ systemPath \in PathValues
    /\ \/ systemPath = [exists |-> TRUE, entries |-> <<"X">>]
       \/ userPath = [exists |-> FALSE, entries |-> <<>>]
       \/ userPath \in InitUserPaths /\ systemPath \in InitSystemPaths
    /\ procs = [p \in Procs |-> NoProc]
    /\ settingsFile \in {NoFile, FileWith(MarshalIndent(InstallTypeUser))}
    /\ settingsFile # NoFile =>
           userPath \in InitUserPaths /\ systemPath \in InitSystemPaths
    /\ configDir = IF settingsFile = NoFile THEN "missing" ELSE "dir"
    /\ loaded = NoLoad
    /\ isUser = NoIsUser
    /\ saved = NoSave
    /\ determined = NoDetermine

\* The settings a first run may meet.
InitSettingsFiles ==
    { NoFile, DirAtFile,
      FileWith(MarshalIndent(InstallTypeSystem)),
      FileWith(MarshalIndent(InstallTypeUser)),
      FileWith([kind |-> "garbage", members |-> <<>>]) }

\* Before the first run: no init --user has saved its settings, or one
\* has and left the settings file it writes.
InitCmdInit ==
    /\ userSaved \in BOOLEAN
    /\ userSaved => settingsFile = FileWith(MarshalIndent(InstallTypeUser))
    /\ userPath \in InitUserPaths
    /\ systemPath \in InitSystemPaths
    /\ procs = [p \in Procs |-> NoProc]
    /\ configDir \in {"missing", "dir"}
    /\ settingsFile \in InitSettingsFiles
    /\ configDir = "missing" => settingsFile = NoFile
    /\ loaded = NoLoad
    /\ isUser = NoIsUser
    /\ saved = NoSave
    /\ determined = NoDetermine

\* Calls of AddToPath one after the other, and the elevated runs of init
\* they launch.
PathNext ==
    \/ \E p \in UserProcs, shimsDir \in ShimsDirs, skipConfirmation \in BOOLEAN,
          userInstall \in BOOLEAN, admin \in BOOLEAN :
          CallAddToPath(p, shimsDir, skipConfirmation, userInstall, admin)
    \/ \E p \in Procs, err \in BOOLEAN : RunEnsureDirectories(p, err)
    \/ \E p \in Procs : RunDetermineInstallType(p)
    \/ \E p \in Procs : RunLoadSettings(p)
    \/ \E p \in Procs, regOk \in BOOLEAN : PathDetectConflicts(p, regOk)
    \/ \E p \in Procs, response \in PromptAnswers : PathAnswerConflicts(p, response)
    \/ \E p \in Procs, regOk \in BOOLEAN : PathCheckUser(p, regOk)
    \/ \E p \in Procs, regOk \in BOOLEAN : PathCheckSystem(p, regOk)
    \/ \E p \in Procs, response \in PromptAnswers : PathAnswerElevation(p, response)
    \/ \E p \in Procs, launched \in BOOLEAN : PathRelaunchElevated(p, launched)
    \/ \E p \in Procs, regOk \in BOOLEAN : PathModifyRead(p, regOk)
    \/ \E p \in Procs, regOk \in BOOLEAN : PathModifyWrite(p, regOk)
    \/ \E p \in Procs : SaveOpenFile(p)
    \/ \E p \in Procs : SaveWriteFile(p)

\* Runs of init started by the user, and the elevated runs they launch.
InitCmdNext ==
    \/ \E p \in UserProcs, changed \in BOOLEAN, flagUser \in BOOLEAN,
          yes \in BOOLEAN, admin \in BOOLEAN :
          StartInit(p, changed, flagUser, yes, admin)
    \/ \E p \in Procs, err \in BOOLEAN : RunEnsureDirectories(p, err)
    \/ \E p \in Procs : RunDetermineInstallType(p)
    \/ \E p \in Procs : RunLoadSettings(p)
    \/ \E p \in Procs, regOk \in BOOLEAN : PathDetectConflicts(p, regOk)
    \/ \E p \in Procs, response \in PromptAnswers : PathAnswerConflicts(p, response)
    \/ \E p \in Procs, regOk \in BOOLEAN : PathCheckUser(p, regOk)
    \/ \E p \in Procs, regOk \in BOOLEAN : PathCheckSystem(p, regOk)
    \/ \E p \in Procs, response \in PromptAnswers : PathAnswerElevation(p, response)
    \/ \E p \in Procs, launched \in BOOLEAN : PathRelaunchElevated(p, launched)
    \/ \E p \in Procs, regOk \in BOOLEAN : PathModifyRead(p, regOk)
    \/ \E p \in Procs, regOk \in BOOLEAN : PathModifyWrite(p, regOk)
    \/ \E p \in Procs : SaveOpenFile(p)
    \/ \E p \in Procs : SaveWriteFile(p)

(***************************************************************************)
(* The claims on AddToPath.                                                *)
(***************************************************************************)

\* C16: a call of AddToPath that finds the shims directory first in the
\* targeted PATH writes nothing to the registry and returns no error, and
\* a call that writes leaves the shims directory first, so that the same
\* call made again changes nothing.
AddToPathIdempotent ==
    \A p \in Procs :
        /\ procs[p].checkedFirst =>
              /\ ~procs[p].wrote
              /\ procs[p].pathErr = "nil"
        /\ procs[p].wrote =>
              /\ ShimsFirst(procs[p].after, procs[p].shimsDir)
              /\ procs[p].after =
                    IF procs[p].userInstall
                    THEN modifyUserPath(procs[p].after, procs[p].shimsDir)
                    ELSE modifySystemPath(procs[p].after, procs[p].shimsDir)

\* C16's case: the second of two calls on the System PATH, made by an
\* administrator under the other spelling, found the directory first,
\* where the first call had put it.
SecondCallFoundShimsFirst ==
    /\ procs[1].kind = "call"
    /\ procs[1].wrote
    /\ ~procs[1].userInstall
    /\ procs[1].shimsDir = "S"
    /\ procs[1].after = [exists |-> TRUE, entries |-> <<"S", "X">>]
    /\ procs[2].kind = "call"
    /\ procs[2].pc = "done"
    /\ ~procs[2].userInstall
    /\ procs[2].shimsDir = "s"
    /\ procs[2].checkedFirst
    /\ systemPath = procs[1].after

\* The entries of a PATH value that are neither empty nor the shims
\* directory once trimmed, trimmed and in the order they stand in.
OtherEntries(reg, shimsDir) ==
    LET trimmedEntries == [i \in 1..Len(CurrentPath(reg)) |->
                              TrimSpace(CurrentPath(reg)[i])]
        Kept(e) == e # "" /\ ToFold(e) # ToFold(shimsDir)
    IN  SelectSeq(trimmedEntries, Kept)

\* The step in which modifyUserPath or modifySystemPath writes and
\* returns no error.
ModifyWrote(p) ==
    /\ procs[p].pc = "modifyWrite"
    /\ procs'[p].pc # "modifyWrite"
    /\ procs'[p].pathErr = "nil"

ModifyPutsShimsFirstKeepsOthersStep ==
    \A p \in Procs :
        ModifyWrote(p) =>
            LET stored == IF procs[p].userInstall THEN userPath' ELSE systemPath'
                held == IF procs[p].userInstall THEN userPath ELSE systemPath
                shimsDir == procs[p].shimsDir
            IN  /\ procs'[p].wrote
                /\ procs'[p].pathErr = "nil"
                /\ procs'[p].after = stored
                /\ stored.exists
                /\ stored.entries # <<>>
                /\ stored.entries[1] = shimsDir
                /\ {i \in 1..Len(stored.entries) :
                          ToFold(TrimSpace(stored.entries[i])) = ToFold(shimsDir)} = {1}
                /\ \A i \in 1..Len(stored.entries) : TrimSpace(stored.entries[i]) # ""
                /\ Tail(stored.entries) = OtherEntries(procs[p].before, shimsDir)
                /\ Tail(stored.entries) = OtherEntries(held, shimsDir)

\* C23: after a call of modifyUserPath or modifySystemPath that returned
\* no error, the stored PATH has the shims directory as its first entry
\* and nowhere else (letter case aside), has no empty entry, and keeps
\* every other entry that was there and not empty, trimmed, in the order
\* they stood in.
ModifyPutsShimsFirstKeepsOthers == [][ModifyPutsShimsFirstKeepsOthersStep]_vars

\* C23's case: modifyUserPath moved the shims directory, found between
\* two other entries under another spelling and with white space around
\* it, to the front of the User PATH and kept the two others, the one
\* with white space trimmed, in the order they stood in.
ModifyMovedShimsToFront ==
    \E p \in Procs :
        /\ procs[p].wrote
        /\ procs[p].userInstall
        /\ procs[p].shimsDir = "S"
        /\ procs[p].before = [exists |-> TRUE, entries |-> <<" Y ", " s ", "X">>]
        /\ userPath = [exists |-> TRUE, entries |-> <<"S", "Y", "X">>]

(***************************************************************************)
(* The claims on the init command.                                         *)
(***************************************************************************)

\* The run has determined its install type.
PastDetermine(pr) == pr.kind = "init" /\ Len(pr.steps) >= 2

\* C21: once an init --user has run to its end and saved its settings,
\* every run of init without the --user flag started after it uses the
\* user-level install and leaves the saved install type user (or the file
\* in the hands of a run that is writing it), however many such runs
\* there are and whether their PATH step succeeds or not.
UserInstallPersists ==
    \A p \in Procs :
        (procs[p].kind = "init" /\ procs[p].later) =>
            /\ PastDetermine(procs[p]) => procs[p].userInstall
            /\ procs[p].pc = "done" => procs[p].endType \in {"user", "writing"}

\* The steps of a run, in the order of Run.
InitSteps == <<"EnsureDirectories", "determineInstallType", "LoadSettings",
               "AddToPath", "SaveSettings">>

\* The process has taken a step of a run of init.
InitStepped(p) ==
    /\ procs'[p] # procs[p]
    /\ procs'[p].kind = "init"
    /\ procs'[p].steps # <<>>

InitStopsAtFirstFailureStep ==
    \A p \in Procs :
        InitStepped(p) =>
            LET run == procs'[p]
            IN  /\ run.steps = SubSeq(InitSteps, 1, Len(run.steps))
                /\ run.ensureErr =>
                      /\ run.steps = <<"EnsureDirectories">>
                      /\ run.pc = "done"
                      /\ UNCHANGED <<userPath, systemPath, configDir, settingsFile>>
                /\ run.pathErr \notin {"", "nil"} =>
                      /\ Len(run.steps) = 4
                      /\ run.pc = "done"
                      /\ ~run.wrote
                      /\ UNCHANGED <<userPath, systemPath, settingsFile>>
                /\ settingsFile' # settingsFile =>
                      /\ ~run.ensureErr
                      /\ run.pathErr = "nil"
                      /\ run.steps = InitSteps
                /\ (userPath' # userPath \/ systemPath' # systemPath) =>
                      /\ ~run.ensureErr
                      /\ Len(run.steps) = 4

\* C26: a run of init takes its steps in one order and stops at the first
\* that fails: when EnsureDirectories fails the run touches neither PATH
\* value nor the settings file, and SaveSettings is called only after
\* AddToPath returned no error, so that a run whose PATH step failed
\* leaves the settings as they were.
InitStopsAtFirstFailure == [][InitStopsAtFirstFailureStep]_vars

\* C26's case: a system-level run over saved user settings could not
\* launch the elevated process; the settings are as they were.
PathFailedSettingsKept ==
    \E p \in Procs :
        /\ procs[p].kind = "init"
        /\ procs[p].changed
        /\ ~procs[p].flagUser
        /\ procs[p].pathErr = "failed to elevate"
        /\ procs[p].pc = "done"
        /\ procs[p].saveErr = ""
        /\ procs[p].readType = "user"
        /\ procs[p].endType = "user"

\* C27: a run is treated as a switch of install type only when the --user
\* flag was given and a settings file saved by an earlier init records
\* the other type; a first init, with no settings file, is no switch.
SwitchOnlyOverSavedOtherType ==
    \A p \in Procs :
        procs[p].isSwitching =>
            /\ procs[p].changed
            /\ procs[p].readType =
                  (IF procs[p].userInstall THEN "system" ELSE "user")

\* The part of C27 that the code does meet: no switch without the flag,
\* and none when the settings loaded record the type asked for.
SwitchOnlyWithFlag ==
    \A p \in Procs :
        procs[p].isSwitching =>
            /\ procs[p].changed
            /\ procs[p].userInstall = procs[p].flagUser
            /\ procs[p].readType #
                  (IF procs[p].userInstall THEN "user" ELSE "system")

(***************************************************************************)
(* Part 7: install.ps1, the Windows installer script: Get-AssetDigest,     *)
(* Test-Checksum and Main.  A digest published by the release is a prefix  *)
(* and a hash text; hash texts are hexadecimal in either case.  The        *)
(* Write-* helpers write to the host, so a function's value is only what   *)
(* it returns.  exit inside Main's try runs the finally block.  After the  *)
(* copies Main puts the install directory on the User PATH and runs        *)
(* dtvem init, a process of Part 13, and waits for it; the elevated        *)
(* process that run may launch goes on by itself.                          *)
(***************************************************************************)

HashTexts == {"ab12", "AB12", "cd34", "CD34"}

\* String.ToLower on the hash texts.
ToLower(h) ==
    CASE h = "AB12" -> "ab12"
      [] h = "CD34" -> "cd34"
      [] OTHER -> h

\* The digest a hash text writes down.
HashValue(h) == IF h \in {"ab12", "AB12"} THEN 1 ELSE 2

\* (Get-FileHash -Algorithm SHA256).Hash of the archive: upper case.
GetFileHash(content) == IF content = "genuine" THEN "AB12" ELSE "CD34"

ArchiveContents == {"genuine", "corrupt"}

NoDigest == [prefix |-> "", hash |-> ""]

\* The asset's digest field in the release data.
Digests ==
    {NoDigest} \cup [prefix : {"sha256:", "sha512:"}, hash : HashTexts]

\* The release data: absent, or with or without the archive's asset.
Releases ==
    {[loaded |-> FALSE, hasAsset |-> FALSE, digest |-> NoDigest]}
    \cup [loaded : {TRUE}, hasAsset : {FALSE}, digest : {NoDigest}]
    \cup [loaded : {TRUE}, hasAsset : {TRUE}, digest : Digests]

\* Get-AssetDigest; "" stands for $null.
GetAssetDigest(releaseData) ==
    IF ~releaseData.loaded THEN ""
    ELSE IF ~releaseData.hasAsset THEN ""
    ELSE IF releaseData.digest.hash # "" /\ releaseData.digest.prefix = "sha256:"
    THEN releaseData.digest.hash
    ELSE ""

\* A faulty variant of TestChecksum: the texts are compared as written.
TestChecksumCaseSensitive(filePath, expected) ==
    IF expected = ""
    THEN [value |-> TRUE, warned |-> TRUE]
    ELSE IF expected # GetFileHash(filePath)
    THEN [value |-> FALSE, warned |-> FALSE]
    ELSE [value |-> TRUE, warned |-> FALSE]

\* Test-Checksum -FilePath -ExpectedHash
TestChecksum(filePath, expected) ==
    IF expected = ""
    THEN [value |-> TRUE, warned |-> TRUE]
    ELSE LET actualHash == ToLower(GetFileHash(filePath))
         IN  IF ToLower(expected) # actualHash
             THEN [value |-> FALSE, warned |-> FALSE]
             ELSE [value |-> TRUE, warned |-> FALSE]

NoTmpDir == [exists |-> FALSE, archive |-> "none", extracted |-> {}]

\* The files of the archive that Main looks for.
ArchiveMembers == {"dtvem.exe", "dtvem-shim.exe"}

\* $INSTALL_DIR as an entry of the User PATH.
InstallDirEntry == "B"

\* $userPath -like "*$INSTALL_DIR*": some entry holds the install
\* directory's text, letter case aside.
LikeInstallDir(reg) ==
    /\ reg.exists
    /\ \E i \in 1..Len(reg.entries) : reg.entries[i] \in {"B", "b", "Bx"}

ScriptIdle ==
    /\ spc = "idle"
    /\ release = [loaded |-> FALSE, hasAsset |-> FALSE, digest |-> NoDigest]
    /\ expectedHash = ""
    /\ tmpDir = NoTmpDir
    /\ members = {}
    /\ installDir = {}
    /\ installDir0 = {}
    /\ verdict = "unset"
    /\ warnings = {}
    /\ exitCode = 0
    /\ exitAt = "none"
    /\ userInstallParam = FALSE

\* The User and System PATH values and the settings the script may meet.
ScriptUserPaths ==
    { [exists |-> FALSE, entries |-> <<>>],
      [exists |-> TRUE, entries |-> <<"X", " s ">>],
      [exists |-> TRUE, entries |-> <<"b", "S">>],
      [exists |-> TRUE, entries |-> <<"Bx">>] }

ScriptSystemPaths ==
    { [exists |-> TRUE, entries |-> <<"X">>],
      [exists |-> TRUE, entries |-> <<"S">>] }

ScriptSettingsFiles ==
    { NoFile, FileWith(MarshalIndent(InstallTypeUser)) }

\* Before Main: any release data, any archive, a first install or an
\* upgrade, with or without -UserInstall, as administrator or not.
ScriptInit ==
    /\ spc = "start"
    /\ release \in {r \in Releases : r.loaded}
    /\ expectedHash = ""
    /\ tmpDir = NoTmpDir
    /\ members \in SUBSET ArchiveMembers
    /\ installDir0 \in {{}, {<<"dtvem.exe", "old">>, <<"dtvem-shim.exe", "old">>}}
    /\ installDir = installDir0
    /\ verdict = "unset"
    /\ warnings = {}
    /\ exitCode = 0
    /\ exitAt = "none"
    /\ userInstallParam \in BOOLEAN
    /\ userPath \in ScriptUserPaths
    /\ systemPath \in ScriptSystemPaths
    /\ procs = [p \in Procs |-> NoProc]
    /\ settingsFile \in ScriptSettingsFiles
    /\ configDir = IF settingsFile = NoFile THEN "missing" ELSE "dir"
    /\ loaded = NoLoad
    /\ isUser = NoIsUser
    /\ saved = NoSave
    /\ determined = NoDetermine
    /\ InitCmdIdle

\* exit 1 inside the try block: the finally block runs next.
ScriptExit(at) ==
    /\ spc' = "finally"
    /\ exitCode' = 1
    /\ exitAt' = at

\* Main up to the try block: the expected hash and the temporary directory.
ScriptPrepare ==
    /\ spc = "start"
    /\ expectedHash' = GetAssetDigest(release)
    /\ warnings' = IF GetAssetDigest(release) = ""
                   THEN warnings \cup {"not available"} ELSE warnings
    /\ tmpDir' = [exists |-> TRUE, archive |-> "none", extracted |-> {}]
    /\ spc' = "download"
    /\ UNCHANGED <<userInstallParam, release, members, installDir, installDir0, verdict,
                   exitCode, exitAt>>
    /\ UNCHANGED notScriptVars

\* Invoke-WebRequest -OutFile: the archive arrives, genuine or not.
ScriptDownload(content) ==
    /\ spc = "download"
    /\ tmpDir' = [tmpDir EXCEPT !.archive = content]
    /\ spc' = "verify"
    /\ UNCHANGED <<userInstallParam, release, expectedHash, members, installDir, installDir0,
                   verdict, warnings, exitCode, exitAt>>
    /\ UNCHANGED notScriptVars

\* Invoke-WebRequest throws: exit 1.
ScriptDownloadFails ==
    /\ spc = "download"
    /\ ScriptExit("download")
    /\ UNCHANGED <<userInstallParam, release, expectedHash, tmpDir, members, installDir,
                   installDir0, verdict, warnings>>
    /\ UNCHANGED notScriptVars

\* if (-not (Test-Checksum ...)) { exit 1 }
ScriptVerify ==
    /\ spc = "verify"
    /\ LET t == TestChecksum(tmpDir.archive, expectedHash)
       IN  /\ verdict' = IF t.value THEN "true" ELSE "false"
           /\ warnings' = IF t.warned THEN warnings \cup {"skipping verification"}
                          ELSE warnings
           /\ IF t.value
              THEN spc' = "extract" /\ UNCHANGED <<exitCode, exitAt>>
              ELSE ScriptExit("checksum")
    /\ UNCHANGED <<userInstallParam, release, expectedHash, tmpDir, members, installDir,
                   installDir0>>
    /\ UNCHANGED notScriptVars

\* Expand-Archive into the temporary directory; a corrupt archive may not
\* expand, and the error ends the try block.
ScriptExtract(ok) ==
    /\ spc = "extract"
    /\ ok \/ tmpDir.archive = "corrupt"
    /\ IF ok
       THEN /\ tmpDir' = [tmpDir EXCEPT !.extracted = members]
            /\ spc' = "copy"
            /\ UNCHANGED <<exitCode, exitAt>>
       ELSE /\ ScriptExit("extract")
            /\ UNCHANGED tmpDir
    /\ UNCHANGED <<userInstallParam, release, expectedHash, members, installDir, installDir0,
                   verdict, warnings>>
    /\ UNCHANGED notScriptVars

\* The copies into the install directory: dtvem.exe or exit 1, then the
\* shim or a warning.
ScriptCopy ==
    /\ spc = "copy"
    /\ IF "dtvem.exe" \in tmpDir.extracted
       THEN /\ installDir' =
                  {f \in installDir : f[1] \notin tmpDir.extracted}
                  \cup {<<m, tmpDir.archive>> : m \in tmpDir.extracted}
            /\ warnings' = IF "dtvem-shim.exe" \in tmpDir.extracted
                           THEN warnings ELSE warnings \cup {"no shim"}
            /\ spc' = "path"
            /\ UNCHANGED <<exitCode, exitAt>>
       ELSE /\ ScriptExit("copy")
            /\ UNCHANGED <<installDir, warnings>>
    /\ UNCHANGED <<userInstallParam, release, expectedHash, tmpDir, members,
                   installDir0, verdict>>
    /\ UNCHANGED notScriptVars

\* What the script leaves alone while it works on the PATH and on init.
scriptKept == <<userInstallParam, release, expectedHash, tmpDir, members,
                installDir, installDir0, verdict, exitCode, exitAt>>

\* The install directory is put before the User PATH unless the value
\* holds its text already; SetEnvironmentVariable throws or not, and the
\* catch block only warns.
ScriptAddInstallDir(setOk) ==
    /\ spc = "path"
    /\ IF ~LikeInstallDir(userPath)
       THEN IF setOk
            THEN /\ userPath' = [exists |-> TRUE,
                                 entries |-> <<InstallDirEntry>> \o CurrentPath(userPath)]
                 /\ warnings' = warnings \cup {"restart your terminal"}
            ELSE /\ UNCHANGED userPath
                 /\ warnings' = warnings \cup {"add manually"}
       ELSE /\ setOk
            /\ UNCHANGED <<userPath, warnings>>
    /\ spc' = "init"
    /\ UNCHANGED scriptKept
    /\ UNCHANGED <<systemPath, procs>>
    /\ UNCHANGED <<settingsVars, initcmdVars, otherPartsVars>>

\* & $dtvemPath init --user -y, or & $dtvemPath init: the process starts,
\* as administrator or not, or the call throws and the catch block warns.
ScriptStartInit(admin, started) ==
    /\ spc = "init"
    /\ IF started
       THEN /\ procs' = [procs EXCEPT ![1] =
                            [NoProc EXCEPT !.pc = "ensure", !.kind = "init",
                                           !.origin = "script",
                                           !.changed = userInstallParam,
                                           !.flagUser = userInstallParam,
                                           !.yes = userInstallParam,
                                           !.admin = admin,
                                           !.shimsDir = ShimsDir,
                                           !.later = userSaved /\ ~userInstallParam]]
            /\ spc' = "running"
            /\ UNCHANGED warnings
       ELSE /\ admin
            /\ spc' = "finally"
            /\ warnings' = warnings \cup {"dtvem init failed"}
            /\ UNCHANGED procs
    /\ UNCHANGED scriptKept
    /\ UNCHANGED <<userPath, systemPath>>
    /\ UNCHANGED <<settingsVars, initcmdVars, otherPartsVars>>

\* The run of init has returned: the script writes its last lines and
\* leaves the try block.
ScriptInitReturned ==
    /\ spc = "running"
    /\ procs[1].pc = "done"
    /\ spc' = "finally"
    /\ UNCHANGED scriptKept
    /\ UNCHANGED warnings
    /\ UNCHANGED <<pathVars, settingsVars, initcmdVars, otherPartsVars>>

\* finally: Remove-Item -Recurse -Force of the temporary directory.
ScriptFinally ==
    /\ spc = "finally"
    /\ tmpDir' = NoTmpDir
    /\ spc' = "exited"
    /\ UNCHANGED <<userInstallParam, release, expectedHash, members, installDir, installDir0,
                   verdict, warnings, exitCode, exitAt>>
    /\ UNCHANGED notScriptVars

\* The steps of Main, and those of the run of init it starts and of the
\* elevated process that run may launch.
ScriptNext ==
    \/ ScriptPrepare
    \/ \E content \in ArchiveContents : ScriptDownload(content)
    \/ ScriptDownloadFails
    \/ ScriptVerify
    \/ \E ok \in BOOLEAN : ScriptExtract(ok)
    \/ ScriptCopy
    \/ \E setOk \in BOOLEAN : ScriptAddInstallDir(setOk)
    \/ \E admin \in BOOLEAN, started \in BOOLEAN : ScriptStartInit(admin, started)
    \/ ScriptInitReturned
    \/ ScriptFinally
    \/ \E p \in Procs, err \in BOOLEAN : RunEnsureDirectories(p, err)
    \/ \E p \in Procs : RunDetermineInstallType(p)
    \/ \E p \in Procs : RunLoadSettings(p)
    \/ \E p \in Procs, regOk \in BOOLEAN : PathDetectConflicts(p, regOk)
    \/ \E p \in Procs, response \in PromptAnswers : PathAnswerConflicts(p, response)
    \/ \E p \in Procs, regOk \in BOOLEAN : PathCheckUser(p, regOk)
    \/ \E p \in Procs, regOk \in BOOLEAN : PathCheckSystem(p, regOk)
    \/ \E p \in Procs, response \in PromptAnswers : PathAnswerElevation(p, response)
    \/ \E p \in Procs, launched \in BOOLEAN : PathRelaunchElevated(p, launched)
    \/ \E p \in Procs, regOk \in BOOLEAN : PathModifyRead(p, regOk)
    \/ \E p \in Procs, regOk \in BOOLEAN : PathModifyWrite(p, regOk)
    \/ \E p \in Procs : SaveOpenFile(p)
    \/ \E p \in Procs : SaveWriteFile(p)

(***************************************************************************)
(* The claim on install.ps1.                                               *)
(***************************************************************************)

\* The release publishes a sha256 digest for the archive.
ChecksumPublished ==
    release.hasAsset /\ release.digest.prefix = "sha256:"

\* The archive in the temporary directory is not the one the digest names.
RealMismatch ==
    /\ ChecksumPublished
    /\ HashValue(release.digest.hash) # HashValue(GetFileHash(tmpDir.archive))

ScriptVerified ==
    /\ spc \in {"extract", "copy", "path", "init", "running", "finally", "exited"}
    /\ verdict # "unset"

\* C15: Test-Checksum returns false exactly on a real mismatch; then
\* nothing is extracted, nothing is copied into the install directory, no
\* run of init is started, the script exits with 1 and the temporary
\* directory is removed.  Without a published checksum Test-Checksum
\* warns and returns true, and the script does not stop at the checksum.
MismatchAbortsInstall ==
    /\ verdict = "false" =>
          /\ exitAt = "checksum"
          /\ exitCode = 1
          /\ installDir = installDir0
          /\ spc \in {"finally", "exited"}
          /\ spc = "finally" => tmpDir.extracted = {} /\ RealMismatch
          /\ spc = "exited" => tmpDir = NoTmpDir
          /\ \A p \in Procs : procs[p] = NoProc
          /\ userPath \in ScriptUserPaths
    /\ (verdict # "unset" /\ spc # "exited" /\ RealMismatch) => verdict = "false"
    /\ (verdict # "unset" /\ ~ChecksumPublished) =>
          /\ verdict = "true"
          /\ "skipping verification" \in warnings
          /\ exitAt # "checksum"
    /\ installDir # installDir0 => verdict = "true"
    /\ spc = "exited" => tmpDir = NoTmpDir

\* C15's case: an upgrade whose download did not match the published
\* digest, written in the other case, has exited.
MismatchExited ==
    /\ spc = "exited"
    /\ verdict = "false"
    /\ release.digest.hash = "AB12"
    /\ installDir0 # {}
    /\ members = ArchiveMembers

(***************************************************************************)
(* The specifications: each part runs alone, the others at rest.           *)
(***************************************************************************)

SpecResolverInit ==
    /\ ResolverInit
    /\ InstallIdle
    /\ ManifestIdle
    /\ SourceIdle
    /\ SelectionIdle
    /\ HttpIdle
    /\ ScriptIdle
    /\ PathIdle
    /\ SettingsIdle
    /\ GapsIdle
    /\ JobsIdle
    /\ AutoIdle
    /\ InitCmdIdle
SpecResolver == SpecResolverInit /\ [][ResolverNext]_vars

SpecInstallInit ==
    /\ ResolverIdle
    /\ InstallInit
    /\ ManifestIdle
    /\ SourceIdle
    /\ SelectionIdle
    /\ HttpIdle
    /\ ScriptIdle
    /\ PathIdle
    /\ SettingsIdle
    /\ GapsIdle
    /\ JobsIdle
    /\ AutoIdle
    /\ InitCmdIdle
SpecInstall == SpecInstallInit /\ [][InstallNext]_vars

SpecManifestInit ==
    /\ ResolverIdle
    /\ InstallIdle
    /\ ManifestInit
    /\ SourceIdle
    /\ SelectionIdle
    /\ HttpIdle
    /\ ScriptIdle
    /\ PathIdle
    /\ SettingsIdle
    /\ GapsIdle
    /\ JobsIdle
    /\ AutoIdle
    /\ InitCmdIdle
SpecManifest == SpecManifestInit /\ [][ManifestNext]_vars

SpecDefaultSourceInit ==
    /\ ResolverIdle
    /\ InstallIdle
    /\ ManifestIdle
    /\ SourceInit
    /\ SelectionIdle
    /\ HttpIdle
    /\ ScriptIdle
    /\ PathIdle
    /\ SettingsIdle
    /\ GapsIdle
    /\ JobsIdle
    /\ AutoIdle
    /\ InitCmdIdle
SpecDefaultSource == SpecDefaultSourceInit /\ [][SourceNext]_vars

SpecSelectionInit ==
    /\ ResolverIdle
    /\ InstallIdle
    /\ ManifestIdle
    /\ SourceIdle
    /\ SelectionInit
    /\ HttpIdle
    /\ ScriptIdle
    /\ PathIdle
    /\ SettingsIdle
    /\ GapsIdle
    /\ JobsIdle
    /\ AutoIdle
    /\ InitCmdIdle
SpecSelection == SpecSelectionInit /\ [][SelectionNext]_vars

SpecHttpInit ==
    /\ ResolverIdle
    /\ InstallIdle
    /\ ManifestIdle
    /\ SourceIdle
    /\ SelectionIdle
    /\ HttpInit
    /\ ScriptIdle
    /\ PathIdle
    /\ SettingsIdle
    /\ GapsIdle
    /\ JobsIdle
    /\ AutoIdle
    /\ InitCmdIdle
\* Every step of a call is taken in the end: Get answers within the
\* client's timeout and Sleep returns.
SpecHttp == SpecHttpInit /\ [][HttpNext]_vars /\ WF_vars(HttpNext)

SpecScriptInit ==
    /\ ResolverIdle
    /\ InstallIdle
    /\ ManifestIdle
    /\ SourceIdle
    /\ SelectionIdle
    /\ HttpIdle
    /\ ScriptInit
    /\ GapsIdle
    /\ JobsIdle
    /\ AutoIdle
SpecScript == SpecScriptInit /\ [][ScriptNext]_vars

SpecPathInit ==
    /\ ResolverIdle
    /\ InstallIdle
    /\ ManifestIdle
    /\ SourceIdle
    /\ SelectionIdle
    /\ HttpIdle
    /\ ScriptIdle
    /\ PathInit
    /\ GapsIdle
    /\ JobsIdle
    /\ AutoIdle
    /\ InitCmdIdle
SpecPath == SpecPathInit /\ [][PathNext]_vars

SpecSettingsInit ==
    /\ ResolverIdle
    /\ InstallIdle
    /\ ManifestIdle
    /\ SourceIdle
    /\ SelectionIdle
    /\ HttpIdle
    /\ ScriptIdle
    /\ PathIdle
    /\ SettingsInit
    /\ GapsIdle
    /\ JobsIdle
    /\ AutoIdle
    /\ InitCmdIdle
SpecSettings == SpecSettingsInit /\ [][SettingsNext]_vars

SpecGapsInit ==
    /\ ResolverIdle
    /\ InstallIdle
    /\ ManifestIdle
    /\ SourceIdle
    /\ SelectionIdle
    /\ HttpIdle
    /\ ScriptIdle
    /\ PathIdle
    /\ SettingsIdle
    /\ GapsInit
    /\ JobsIdle
    /\ AutoIdle
    /\ InitCmdIdle
SpecGaps == SpecGapsInit /\ [][GapsNext]_vars

SpecJobsInit ==
    /\ ResolverIdle
    /\ InstallIdle
    /\ ManifestIdle
    /\ SourceIdle
    /\ SelectionIdle
    /\ HttpIdle
    /\ ScriptIdle
    /\ PathIdle
    /\ SettingsIdle
    /\ GapsIdle
    /\ JobsInit
    /\ AutoIdle
    /\ InitCmdIdle
SpecJobs == SpecJobsInit /\ [][JobsNext]_vars

SpecAutoInit ==
    /\ ResolverIdle
    /\ InstallIdle
    /\ ManifestIdle
    /\ SourceIdle
    /\ SelectionIdle
    /\ HttpIdle
    /\ ScriptIdle
    /\ PathIdle
    /\ SettingsIdle
    /\ GapsIdle
    /\ JobsIdle
    /\ AutoInit
    /\ InitCmdIdle
SpecAuto == SpecAutoInit /\ [][AutoNext]_vars

SpecInitCmdInit ==
    /\ ResolverIdle
    /\ InstallIdle
    /\ ManifestIdle
    /\ SourceIdle
    /\ SelectionIdle
    /\ HttpIdle
    /\ ScriptIdle
    /\ GapsIdle
    /\ JobsIdle
    /\ AutoIdle
    /\ InitCmdInit
SpecInitCmd == SpecInitCmdInit /\ [][InitCmdNext]_vars

====
